---------------------------- MODULE Spec2Model ----------------------------
(***************************************************************************)
(* A model of the orgflow document core: the scalar value types, the Tag   *)
(* and TagCollection grammar, the Task line parser, the Note block parser, *)
(* and the OrgDocument reader / writer with the file it is saved to.       *)
(*                                                                         *)
(* Text is modelled as a sequence of characters (one-character strings).   *)
(* A date literal and a guid literal are each one symbol of the alphabet:  *)
(* the model does not look inside them, it only knows which literals       *)
(* parse, to which value, and how that value is printed again.             *)
(***************************************************************************)
EXTENDS Integers, Sequences, FiniteSets, TLC

VARIABLES
    pc,       \* position of the driver of the specification that is running
    input,    \* the text (or block of lines) handed to a parser
    result,   \* what the parser returned for input
    output,   \* the rendering of result, when it was rendered
    again,    \* what the parser returned for output
    file,     \* the file at the document path
    doc,      \* the OrgDocument held in memory
    loaded,   \* outcome of the last OrgDocument::from
    tag_suggestions, \* the TagSuggestions last collected from the document
    overflow_checks, \* the build panics on integer overflow (debug), or wraps
    from_parser, \* the OrgDocumentParser of a load that is reading its lines
    widget,   \* the AutocompletionWidget of the terminal application
    session   \* the SessionManager of the terminal application

vars == <<pc, input, result, output, again, file, doc, loaded, tag_suggestions,
          overflow_checks, from_parser, widget, session>>

---------------------------------------------------------------------------
(* Bounds of the model *)

MaxTagLen == 4
MaxWords == 4
MaxNoteLines == 3
MaxTasks == 2
MaxLines == 4
MaxNotes == 2
MaxKeystrokes == 55

---------------------------------------------------------------------------
(* Results: Rust's Result<T, String>, and a panic that unwinds the caller *)

Ok(v) == [st |-> "ok", val |-> v]
Err == [st |-> "err", val |-> <<>>]
Panic == [st |-> "panic", val |-> <<>>]
IsOk(r) == r.st = "ok"
None == [some |-> FALSE, val |-> <<>>]
Some(v) == [some |-> TRUE, val |-> v]

---------------------------------------------------------------------------
(* str: the operations of Rust's str the parsers use *)

SP == " "
TAB == "\t"
NL == "\n"

IsWhitespace(c) == c \in {SP, TAB, NL}

StartsWith(s, p) ==
    /\ Len(p) <= Len(s)
    /\ SubSeq(s, 1, Len(p)) = p

EndsWith(s, p) ==
    /\ Len(p) <= Len(s)
    /\ SubSeq(s, Len(s) - Len(p) + 1, Len(s)) = p

Drop(s, n) == SubSeq(s, n + 1, Len(s))

Contains(s, p) == \E i \in 0..(Len(s) - Len(p)) : SubSeq(s, i + 1, i + Len(p)) = p

\* str::replace(p, ""): every non-overlapping match of p, left to right, removed.
RECURSIVE Remove(_, _)
Remove(s, p) ==
    IF s = <<>> THEN <<>>
    ELSE IF StartsWith(s, p) THEN Remove(Drop(s, Len(p)), p)
    ELSE <<Head(s)>> \o Remove(Tail(s), p)

\* str::strip_prefix: only the leading match removed.
StripPrefix(s, p) == IF StartsWith(s, p) THEN Drop(s, Len(p)) ELSE s

RECURSIVE TrimStart(_)
TrimStart(s) ==
    IF s # <<>> /\ IsWhitespace(Head(s)) THEN TrimStart(Tail(s)) ELSE s

RECURSIVE TrimEnd(_)
TrimEnd(s) ==
    IF s # <<>> /\ IsWhitespace(s[Len(s)]) THEN TrimEnd(SubSeq(s, 1, Len(s) - 1)) ELSE s

Trim(s) == TrimEnd(TrimStart(s))

\* Index of the first occurrence of character c in s, 0 when there is none.
FirstIndex(s, c) ==
    IF \E i \in 1..Len(s) : s[i] = c
    THEN CHOOSE i \in 1..Len(s) : s[i] = c /\ \A j \in 1..(i - 1) : s[j] # c
    ELSE 0

\* str::split_once(c): None, or the text before and after the first c.
SplitOnce(s, c) ==
    LET i == FirstIndex(s, c)
    IN IF i = 0 THEN None
       ELSE Some([head |-> SubSeq(s, 1, i - 1), tail |-> Drop(s, i)])

\* str::split(c): the pieces between every c, empty pieces included.
RECURSIVE Split(_, _)
Split(s, c) ==
    LET i == FirstIndex(s, c)
    IN IF i = 0 THEN <<s>>
       ELSE <<SubSeq(s, 1, i - 1)>> \o Split(Drop(s, i), c)

\* The leading run of non-whitespace characters of s.
RECURSIVE TakeWord(_)
TakeWord(s) ==
    IF s = <<>> \/ IsWhitespace(Head(s)) THEN <<>>
    ELSE <<Head(s)>> \o TakeWord(Tail(s))

\* str::split_whitespace: the maximal runs of non-whitespace characters.
RECURSIVE SplitWhitespace(_)
SplitWhitespace(s) ==
    LET t == TrimStart(s)
        w == TakeWord(t)
    IN IF t = <<>> THEN <<>>
       ELSE <<w>> \o SplitWhitespace(Drop(t, Len(w)))

\* [String]::join(sep)
RECURSIVE Join(_, _)
Join(ws, sep) ==
    IF ws = <<>> THEN <<>>
    ELSE IF Len(ws) = 1 THEN ws[1]
    ELSE ws[1] \o sep \o Join(Tail(ws), sep)

LowerOf(c) ==
    CASE c = "A" -> "a"
      [] c = "B" -> "b"
      [] c = "C" -> "c"
      [] c = "K" -> "k"
      [] c = "P" -> "p"
      [] c = "S" -> "s"
      [] c = "T" -> "t"
      [] c = "N" -> "n"
      [] c = "A1A2A3A4-B1B2-C1C2-D1D2-D3D4D5D6D7D8" -> "a1a2a3a4-b1b2-c1c2-d1d2-d3d4d5d6d7d8"
      [] OTHER -> c

\* str::to_lowercase
ToLowercase(s) == [i \in 1..Len(s) |-> LowerOf(s[i])]

\* All texts over alphabet of length at most n.
RECURSIVE TextsUpTo(_, _)
TextsUpTo(alphabet, n) ==
    IF n = 0 THEN {<<>>}
    ELSE LET shorter == TextsUpTo(alphabet, n - 1)
         IN shorter \cup {Append(s, c) : s \in shorter, c \in alphabet}

---------------------------------------------------------------------------
(* Date (core/dates.rs).  A literal is one symbol; chrono's %Y-%m-%d takes *)
(* one- or two-digit months and days, Display pads them to two digits.     *)

DateLiterals == {"2022-11-12", "2025-11-12", "2025-3-12", "2025-03-12", "2026-01-01"}

DateOf(lit) ==
    CASE lit = "2022-11-12" -> [y |-> 2022, m |-> 11, d |-> 12]
      [] lit = "2025-11-12" -> [y |-> 2025, m |-> 11, d |-> 12]
      [] lit = "2025-3-12" -> [y |-> 2025, m |-> 3, d |-> 12]
      [] lit = "2025-03-12" -> [y |-> 2025, m |-> 3, d |-> 12]
      [] lit = "2026-01-01" -> [y |-> 2026, m |-> 1, d |-> 1]

\* impl FromStr for Date
DateFromStr(s) ==
    IF Len(s) = 1 /\ s[1] \in DateLiterals THEN Ok(DateOf(s[1])) ELSE Err

\* impl Display for Date: "{:02}-{:02}-{:02}"
DateToString(date) ==
    CASE date = [y |-> 2022, m |-> 11, d |-> 12] -> <<"2022-11-12">>
      [] date = [y |-> 2025, m |-> 11, d |-> 12] -> <<"2025-11-12">>
      [] date = [y |-> 2025, m |-> 3, d |-> 12] -> <<"2025-03-12">>
      [] date = [y |-> 2026, m |-> 1, d |-> 1] -> <<"2026-01-01">>

\* Date::now(): the local calendar day
Today == [y |-> 2026, m |-> 1, d |-> 1]

---------------------------------------------------------------------------
(* Priority (core/priority.rs) *)

PriorityFromStr(s) ==
    IF s = <<"(", "A", ")">> THEN Ok("A")
    ELSE IF s = <<"(", "B", ")">> THEN Ok("B")
    ELSE IF s = <<"(", "C", ")">> THEN Ok("C")
    ELSE Err

PriorityToString(p) == <<"(", p, ")">>

---------------------------------------------------------------------------
(* Guid (core/tags/guid.rs).  A literal is one symbol; Uuid::parse_str     *)
(* takes the hyphenated form in either case, Display prints lower case.    *)

GuidLiterals == {"a1a2a3a4-b1b2-c1c2-d1d2-d3d4d5d6d7d8", "A1A2A3A4-B1B2-C1C2-D1D2-D3D4D5D6D7D8"}

GuidOf(lit) == "guid-a1a2"

GuidFromStr(s) ==
    IF Len(s) = 1 /\ s[1] \in GuidLiterals THEN Ok(GuidOf(s[1])) ELSE Err

GuidToString(g) == <<"a1a2a3a4-b1b2-c1c2-d1d2-d3d4d5d6d7d8">>

---------------------------------------------------------------------------
(* u64 text: str::parse::<u64> and Display for u64 *)

Digits == {"0", "1", "2", "3", "4", "5", "6", "7", "8", "9"}

DigitVal(c) ==
    CASE c = "0" -> 0 [] c = "1" -> 1 [] c = "2" -> 2 [] c = "3" -> 3 [] c = "4" -> 4
      [] c = "5" -> 5 [] c = "6" -> 6 [] c = "7" -> 7 [] c = "8" -> 8 [] c = "9" -> 9

DigitChar(n) ==
    CASE n = 0 -> "0" [] n = 1 -> "1" [] n = 2 -> "2" [] n = 3 -> "3" [] n = 4 -> "4"
      [] n = 5 -> "5" [] n = 6 -> "6" [] n = 7 -> "7" [] n = 8 -> "8" [] n = 9 -> "9"

\* A number is the sequence of its decimal digits, most significant first and
\* without leading zeros: the values of u64 and i64 arithmetic are exact.
RECURSIVE Norm(_)
Norm(d) == IF Len(d) > 1 /\ d[1] = 0 THEN Norm(Tail(d)) ELSE d

Zero == <<0>>

NumLeq(a, b) ==
    \/ Len(a) < Len(b)
    \/ /\ Len(a) = Len(b)
       /\ \/ a = b
          \/ \E i \in 1..Len(a) : a[i] < b[i] /\ \A j \in 1..(i - 1) : a[j] = b[j]

Front(d) == SubSeq(d, 1, Len(d) - 1)

\* The digits of a small carry, none for 0
RECURSIVE CarryDigits(_)
CarryDigits(n) == IF n = 0 THEN <<>> ELSE CarryDigits(n \div 10) \o <<n % 10>>

RECURSIVE MulCarry(_, _, _)
MulCarry(a, k, carry) ==
    IF a = <<>> THEN CarryDigits(carry)
    ELSE LET t == a[Len(a)] * k + carry
         IN MulCarry(Front(a), k, t \div 10) \o <<t % 10>>

\* a * k for a small factor k
NumMul(a, k) == Norm(<<0>> \o MulCarry(a, k, 0))

RECURSIVE DivRem(_, _, _)
DivRem(a, k, rem) ==
    IF a = <<>> THEN <<>>
    ELSE LET t == rem * 10 + Head(a)
         IN <<t \div k>> \o DivRem(Tail(a), k, t % k)

\* a / k for a small divisor k, rounded down
NumDiv(a, k) == Norm(DivRem(a, k, 0))

Pad(b, n) == [i \in 1..n |-> IF i <= n - Len(b) THEN 0 ELSE b[i - (n - Len(b))]]

RECURSIVE SubBorrow(_, _, _)
SubBorrow(a, b, borrow) ==
    IF a = <<>> THEN <<>>
    ELSE LET t == a[Len(a)] - b[Len(b)] - borrow
         IN SubBorrow(Front(a), Front(b), IF t < 0 THEN 1 ELSE 0)
                \o <<IF t < 0 THEN t + 10 ELSE t>>

\* a - b, for a >= b
NumSub(a, b) == Norm(SubBorrow(a, Pad(b, Len(a)), 0))

\* u64::MAX, 2^64, i64::MAX, 2^63
U64Max == <<1, 8, 4, 4, 6, 7, 4, 4, 0, 7, 3, 7, 0, 9, 5, 5, 1, 6, 1, 5>>
Two64 == <<1, 8, 4, 4, 6, 7, 4, 4, 0, 7, 3, 7, 0, 9, 5, 5, 1, 6, 1, 6>>
I64Max == <<9, 2, 2, 3, 3, 7, 2, 0, 3, 6, 8, 5, 4, 7, 7, 5, 8, 0, 7>>
Two63 == <<9, 2, 2, 3, 3, 7, 2, 0, 3, 6, 8, 5, 4, 7, 7, 5, 8, 0, 8>>

\* n modulo 2^64
RECURSIVE WrapU64(_)
WrapU64(n) == IF NumLeq(n, U64Max) THEN n ELSE WrapU64(NumSub(n, Two64))

\* An i64 is its sign and its magnitude; zero is not negative.
Signed(neg, mag) == [neg |-> neg /\ mag # Zero, mag |-> mag]

\* `n as i64` for a u64 n, and `x as u64` for an i64 x: the same 64 bits
AsI64(n) == IF NumLeq(n, I64Max) THEN Signed(FALSE, n) ELSE Signed(TRUE, NumSub(Two64, n))
AsU64(x) == IF x.neg THEN NumSub(Two64, x.mag) ELSE x.mag

\* x / k for an i64 x: the quotient is rounded towards zero
DivI64(x, k) == Signed(x.neg, NumDiv(x.mag, k))

\* The product x * k is outside of i64.
OverflowsI64(x, k) == ~NumLeq(NumMul(x.mag, k), IF x.neg THEN Two63 ELSE I64Max)

\* `x * k` on i64: an overflow panics where the build checks it and wraps
\* around where it does not.
MulI64(x, k) ==
    IF ~OverflowsI64(x, k) THEN Ok(Signed(x.neg, NumMul(x.mag, k)))
    ELSE IF overflow_checks THEN Panic
    ELSE Ok(AsI64(WrapU64(NumMul(AsU64(x), k))))

\* `n * k` on u64, likewise
MulU64(n, k) ==
    IF NumLeq(NumMul(n, k), U64Max) THEN Ok(NumMul(n, k))
    ELSE IF overflow_checks THEN Panic
    ELSE Ok(WrapU64(NumMul(n, k)))

\* One optional leading '+', then at least one digit and nothing else; a value
\* above u64::MAX is an error.
ParseU64(s) ==
    LET body == StripPrefix(s, <<"+">>)
    IN IF body # <<>> /\ \A i \in 1..Len(body) : body[i] \in Digits
       THEN IF NumLeq(Norm([i \in 1..Len(body) |-> DigitVal(body[i])]), U64Max)
            THEN Ok(Norm([i \in 1..Len(body) |-> DigitVal(body[i])]))
            ELSE Err
       ELSE Err

FormatU64(n) == [i \in 1..Len(n) |-> DigitChar(n[i])]

\* Display for i64
FormatI64(x) == (IF x.neg THEN <<"-">> ELSE <<>>) \o FormatU64(x.mag)

---------------------------------------------------------------------------
(* TaskState (core/tags/state.rs) *)

HoldOpen == <<"h", "o", "l", "d", "(">>
WaitOpen == <<"w", "a", "i", "t", "(">>
CancelledOpen == <<"c", "a", "n", "c", "e", "l", "l", "e", "d", "(">>

\* impl FromStr for TaskState
TaskStateFromStr(s) ==
    LET inner == SubSeq(s, 1, Len(s) - 1)
    IN IF StartsWith(s, HoldOpen) /\ EndsWith(s, <<")">>)
       THEN Ok([state |-> "Hold", comment |-> Remove(inner, HoldOpen)])
       ELSE IF StartsWith(s, WaitOpen) /\ EndsWith(s, <<")">>)
       THEN Ok([state |-> "Wait", comment |-> Remove(inner, WaitOpen)])
       ELSE IF StartsWith(s, CancelledOpen) /\ EndsWith(s, <<")">>)
       THEN Ok([state |-> "Cancelled", comment |-> Remove(inner, CancelledOpen)])
       ELSE IF s = <<"t", "o", "d", "o">> THEN Ok([state |-> "Todo", comment |-> <<>>])
       ELSE IF s = <<"n", "e", "x", "t">> THEN Ok([state |-> "Next", comment |-> <<>>])
       ELSE IF s = <<"d", "o", "n", "e">> THEN Ok([state |-> "Done", comment |-> <<>>])
       ELSE Err

\* impl Display for TaskState
TaskStateToString(t) ==
    CASE t.state = "Todo" -> <<"t", "o", "d", "o">>
      [] t.state = "Next" -> <<"n", "e", "x", "t">>
      [] t.state = "Done" -> <<"d", "o", "n", "e">>
      [] t.state = "Hold" -> HoldOpen \o t.comment \o <<")">>
      [] t.state = "Wait" -> WaitOpen \o t.comment \o <<")">>
      [] t.state = "Cancelled" -> CancelledOpen \o t.comment \o <<")">>

---------------------------------------------------------------------------
(* TaskEstimate (core/tags/estimate.rs): a Duration in seconds *)

Min == <<"m", "i", "n">>

\* TaskEstimate::new
TaskEstimateNew(secs) == IF IsOk(secs) THEN Ok([secs |-> secs.val]) ELSE Panic

\* The minutes parsed: an error, or the estimate of the minutes
EstimateOf(minutes) ==
    IF IsOk(minutes) THEN TaskEstimateNew(MulU64(minutes.val, 60)) ELSE Err

\* impl FromStr for TaskEstimate
TaskEstimateFromStr(s) ==
    IF ~EndsWith(s, Min) THEN Err ELSE EstimateOf(ParseU64(Remove(s, Min)))

\* impl Display for TaskEstimate
TaskEstimateToString(e) == FormatU64(NumDiv(e.secs, 60)) \o Min

---------------------------------------------------------------------------
(* TaskRecurrence (core/tags/recurrence.rs): a TimeDelta in days, and the unit *)

\* get_u64_or_err
GetU64OrErr(val, unit) ==
    IF ~EndsWith(val, unit) THEN Err
    ELSE ParseU64(SubSeq(val, 1, Len(val) - Len(unit)))

\* The largest TimeDelta, in whole days: i64::MAX milliseconds
MaxDeltaDays == <<1, 0, 6, 7, 5, 1, 9, 9, 1, 1, 6, 7>>

\* TimeDelta::days and TimeDelta::weeks: a value out of bounds panics.
TimeDeltaDays(days) == IF NumLeq(days.mag, MaxDeltaDays) THEN Ok(days) ELSE Panic
TimeDeltaWeeks(weeks) == TimeDeltaDays(Signed(weeks.neg, NumMul(weeks.mag, 7)))

\* TaskRecurrence(delta, unit)
Recurrence(delta, unit) ==
    IF IsOk(delta) THEN Ok([days |-> delta.val, unit |-> unit]) ELSE Panic

\* The weeks of with_years, when the product did not panic
YearsOfWeeks(weeks) ==
    IF IsOk(weeks) THEN Recurrence(TimeDeltaWeeks(weeks.val), "y") ELSE Panic

WithDays(days) == Recurrence(TimeDeltaDays(AsI64(days)), "d")
WithWeeks(weeks) == Recurrence(TimeDeltaWeeks(AsI64(weeks)), "w")
WithYears(years) == YearsOfWeeks(MulI64(AsI64(years), 52))

\* The count parsed: an error, or the recurrence of the count and the unit
RecurrenceOf(count, unit) ==
    IF ~IsOk(count) THEN Err
    ELSE IF unit = "d" THEN WithDays(count.val)
    ELSE IF unit = "w" THEN WithWeeks(count.val)
    ELSE WithYears(count.val)

\* impl FromStr for TaskRecurrence
TaskRecurrenceFromStr(s) ==
    IF EndsWith(s, <<"d">>) THEN RecurrenceOf(GetU64OrErr(s, <<"d">>), "d")
    ELSE IF EndsWith(s, <<"w">>) THEN RecurrenceOf(GetU64OrErr(s, <<"w">>), "w")
    ELSE IF EndsWith(s, <<"y">>) THEN RecurrenceOf(GetU64OrErr(s, <<"y">>), "y")
    ELSE Err

\* impl Display for TaskRecurrence
TaskRecurrenceToString(r) ==
    IF r.unit = "y" THEN FormatI64(DivI64(DivI64(r.days, 7), 52)) \o <<"y">>
    ELSE IF r.unit = "w" THEN FormatI64(DivI64(r.days, 7)) \o <<"w">>
    ELSE FormatI64(r.days) \o <<"d">>

---------------------------------------------------------------------------
(* Tag and TagCollection (core/tags/mod.rs) *)

PfxStatus == <<"s", ":">>
PfxEstimate == <<"e", "s", "t", ":">>
PfxStrict == <<"r", "e", "c", ":", "+">>
PfxLoose == <<"r", "e", "c", ":">>
PfxThreshold == <<"t", ":">>
PfxNote == <<"n", ":">>
PfxPerson == <<"p", ":">>
PfxOneOff == <<"!">>
PfxContext == <<"@">>
PfxProject == <<"+">>

Tag(kind, a, b) == [kind |-> kind, a |-> a, b |-> b]

\* The typed payload of a tag, or the payload parser's error.
Typed(kind, r) == IF IsOk(r) THEN Ok(Tag(kind, r.val, <<>>)) ELSE r

\* impl FromStr for Tag
TagFromStr(s) ==
    IF StartsWith(s, PfxStatus) THEN Typed("Status", TaskStateFromStr(Remove(s, PfxStatus)))
    ELSE IF StartsWith(s, PfxEstimate)
    THEN Typed("Estimate", TaskEstimateFromStr(Remove(s, PfxEstimate)))
    ELSE IF StartsWith(s, PfxStrict)
    THEN Typed("StrictRecurrence", TaskRecurrenceFromStr(Remove(s, PfxStrict)))
    ELSE IF StartsWith(s, PfxLoose)
    THEN Typed("LooseRecurrence", TaskRecurrenceFromStr(Remove(s, PfxLoose)))
    ELSE IF StartsWith(s, PfxThreshold)
    THEN Typed("Threshold", DateFromStr(Remove(s, PfxThreshold)))
    ELSE IF StartsWith(s, PfxNote) THEN Typed("Note", GuidFromStr(Remove(s, PfxNote)))
    ELSE IF StartsWith(s, PfxPerson) THEN Ok(Tag("Person", Remove(s, PfxPerson), <<>>))
    ELSE IF StartsWith(s, PfxOneOff) THEN Ok(Tag("OneOff", Remove(s, PfxOneOff), <<>>))
    ELSE IF StartsWith(s, PfxContext) THEN Ok(Tag("Context", Remove(s, PfxContext), <<>>))
    ELSE IF StartsWith(s, PfxProject) THEN Ok(Tag("Project", Remove(s, PfxProject), <<>>))
    ELSE IF Contains(s, <<":">>)
    THEN LET kv == SplitOnce(s, ":").val
         IN Ok(Tag("Custom", ToLowercase(kv.head), ToLowercase(kv.tail)))
    ELSE Err

\* impl Display for Tag
TagToString(t) ==
    CASE t.kind = "Status" -> PfxStatus \o TaskStateToString(t.a)
      [] t.kind = "Estimate" -> PfxEstimate \o TaskEstimateToString(t.a)
      [] t.kind = "StrictRecurrence" -> PfxStrict \o TaskRecurrenceToString(t.a)
      [] t.kind = "LooseRecurrence" -> PfxLoose \o TaskRecurrenceToString(t.a)
      [] t.kind = "Threshold" -> PfxThreshold \o DateToString(t.a)
      [] t.kind = "Note" -> PfxNote \o GuidToString(t.a)
      [] t.kind = "Person" -> PfxPerson \o t.a
      [] t.kind = "OneOff" -> PfxOneOff \o t.a
      [] t.kind = "Context" -> PfxContext \o t.a
      [] t.kind = "Project" -> PfxProject \o t.a
      [] t.kind = "Custom" -> t.a \o <<":">> \o t.b

\* The tags of the tokens, in order, or the first token's error.
ConsTags(t, rest) ==
    IF ~IsOk(t) THEN t
    ELSE IF ~IsOk(rest) THEN rest
    ELSE Ok(<<t.val>> \o rest.val)

RECURSIVE CollectTags(_)
CollectTags(tokens) ==
    IF tokens = <<>> THEN Ok(<<>>)
    ELSE ConsTags(TagFromStr(Head(tokens)), CollectTags(Tail(tokens)))

\* impl FromStr for TagCollection
TagCollectionFromStr(s) ==
    IF Len(Remove(s, <<SP>>)) = 0 THEN Err
    ELSE CollectTags(SplitWhitespace(s))

\* impl Display for TagCollection
TagCollectionToString(tags) == Join([i \in 1..Len(tags) |-> TagToString(tags[i])], <<SP>>)

---------------------------------------------------------------------------
(* Task (core/task.rs) *)

X == <<"x">>

\* _is_prefix
IsPrefix(s) == IsOk(PriorityFromStr(s)) \/ IsOk(DateFromStr(s)) \/ s = X

\* _is_suffix
IsSuffix(s) == IsOk(TagFromStr(s))

\* ScanWord without the commit to the suffix: a word that parses as a Tag is
\* pushed to the suffix and the scan goes on with the words after it.
ScanWordNoCommit(sc, head, tail, tag) ==
    IF IsPrefix(head) /\ sc.description = <<>>
    THEN [sc EXCEPT !.prefix = Append(@, head), !.remaining = Trim(tail)]
    ELSE IF tag = Panic THEN [sc EXCEPT !.aborted = TRUE]
    ELSE IF IsOk(tag)
    THEN [sc EXCEPT !.suffix = Append(@, head), !.remaining = Trim(tail)]
    ELSE [sc EXCEPT !.description = Append(@, head), !.remaining = Trim(tail)]

RECURSIVE ScanLoopNoCommit(_)
ScanCutNoCommit(sc, cut) ==
    IF ~cut.some \/ sc.aborted THEN sc
    ELSE ScanLoopNoCommit(ScanWordNoCommit(sc, cut.val.head, cut.val.tail,
                                           TagFromStr(cut.val.head)))

ScanLoopNoCommit(sc) == ScanCutNoCommit(sc, SplitOnce(sc.remaining, SP))

\* One round of the word loop of Task::from_str on the word head, followed by
\* tail; tag is Tag::from_str(head), of which _is_suffix(head) tests the
\* success, and whose panic ends the parse.
ScanWord(sc, head, tail, tag) ==
    IF IsPrefix(head) /\ sc.description = <<>>
    THEN [sc EXCEPT !.prefix = Append(@, head), !.remaining = Trim(tail)]
    ELSE IF tag = Panic THEN [sc EXCEPT !.aborted = TRUE]
    ELSE IF IsOk(tag)
    THEN [sc EXCEPT !.suffix = Append(@, head) \o Split(tail, SP), !.remaining = <<>>]
    ELSE [sc EXCEPT !.description = Append(@, head), !.remaining = Trim(tail)]

\* The word loop of Task::from_str: `while let Some((head, tail)) =
\* remaining.split_once(" ")`, from the state sc of the scan.
RECURSIVE ScanLoop(_)
ScanCut(sc, cut) ==
    IF ~cut.some \/ sc.aborted THEN sc
    ELSE ScanLoop(ScanWord(sc, cut.val.head, cut.val.tail, TagFromStr(cut.val.head)))

ScanLoop(sc) == ScanCut(sc, SplitOnce(sc.remaining, SP))

\* The classification of the last word, after the loop; tag is
\* Tag::from_str of that word.
LastWord(sc, tag) ==
    IF IsPrefix(sc.remaining) THEN [sc EXCEPT !.prefix = Append(@, sc.remaining)]
    ELSE IF tag = Panic THEN [sc EXCEPT !.aborted = TRUE]
    ELSE IF IsOk(tag) THEN [sc EXCEPT !.suffix = Append(@, sc.remaining)]
    ELSE [sc EXCEPT !.description = Append(@, sc.remaining)]

ScanLast(sc) == IF sc.aborted THEN sc ELSE LastWord(sc, TagFromStr(sc.remaining))

\* The prefix, description and suffix words Task::from_str collects from s.
Scan(s) ==
    ScanLast(ScanLoop([remaining |-> Trim(s), prefix |-> <<>>, description |-> <<>>,
                       suffix |-> <<>>, aborted |-> FALSE]))

\* PrefixStep with the second date taken as a new creation date: the first
\* date is not moved to completion_date.
PrefixStepNoReinterpretation(st, val) ==
    IF val = X /\ ~st.is_done THEN Ok([st EXCEPT !.is_done = TRUE])
    ELSE IF IsOk(PriorityFromStr(val))
    THEN Ok([st EXCEPT !.priority = Some(PriorityFromStr(val).val)])
    ELSE IF IsOk(DateFromStr(val)) /\ ~st.completion_date.some
    THEN Ok([st EXCEPT !.creation_date = Some(DateFromStr(val).val)])
    ELSE Err

\* PrefixStep with the first priority kept: a later one does not overwrite it.
PrefixStepFirstPriority(st, val) ==
    IF val = X /\ ~st.is_done THEN Ok([st EXCEPT !.is_done = TRUE])
    ELSE IF IsOk(PriorityFromStr(val))
    THEN Ok([st EXCEPT !.priority =
                IF st.priority.some THEN st.priority ELSE Some(PriorityFromStr(val).val)])
    ELSE IF IsOk(DateFromStr(val)) /\ st.creation_date.some /\ ~st.completion_date.some
    THEN Ok([st EXCEPT !.completion_date = st.creation_date,
                       !.creation_date = Some(DateFromStr(val).val)])
    ELSE IF IsOk(DateFromStr(val)) /\ ~st.completion_date.some
    THEN Ok([st EXCEPT !.creation_date = Some(DateFromStr(val).val)])
    ELSE Err

\* One round of the loop of process_prefix on token val, from the state st.
PrefixStep(st, val) ==
    IF val = X /\ ~st.is_done THEN Ok([st EXCEPT !.is_done = TRUE])
    ELSE IF IsOk(PriorityFromStr(val))
    THEN Ok([st EXCEPT !.priority = Some(PriorityFromStr(val).val)])
    ELSE IF IsOk(DateFromStr(val)) /\ st.creation_date.some /\ ~st.completion_date.some
    THEN Ok([st EXCEPT !.completion_date = st.creation_date,
                       !.creation_date = Some(DateFromStr(val).val)])
    ELSE IF IsOk(DateFromStr(val)) /\ ~st.completion_date.some
    THEN Ok([st EXCEPT !.creation_date = Some(DateFromStr(val).val)])
    ELSE Err

RECURSIVE PrefixLoop(_, _)
PrefixLoop(st, prefix) ==
    IF prefix = <<>> THEN Ok(st)
    ELSE LET r == PrefixStep(st, Head(prefix))
         IN IF IsOk(r) THEN PrefixLoop(r.val, Tail(prefix)) ELSE Err

\* process_prefix
ProcessPrefix(prefix) ==
    PrefixLoop([is_done |-> FALSE, priority |-> None,
                completion_date |-> None, creation_date |-> None], prefix)

\* The Task of the scan sc, of the outcome p of process_prefix and of the
\* outcome tags of TagCollection::from_str on the joined suffix
TaskOfParts(sc, p, tags) ==
    IF ~IsOk(p) THEN Err
    ELSE IF sc.suffix # <<>> /\ ~IsOk(tags) THEN tags
    ELSE Ok([is_completed |-> p.val.is_done,
             priority_level |-> p.val.priority,
             completion_date |-> p.val.completion_date,
             creation_date |-> p.val.creation_date,
             description |-> Trim(Join(sc.description, <<SP>>)),
             tags |-> IF sc.suffix # <<>> THEN Some(tags.val) ELSE None])

TaskOfScan(sc) ==
    IF sc.aborted THEN Panic
    ELSE IF sc.description = <<>> THEN Err
    ELSE TaskOfParts(sc, ProcessPrefix(sc.prefix),
                     TagCollectionFromStr(Join(sc.suffix, <<SP>>)))

\* impl FromStr for Task
TaskFromStr(s) == IF Trim(s) = <<>> THEN Err ELSE TaskOfScan(Scan(s))

\* impl Display for Task
TaskToString(t) ==
    Join((IF t.is_completed THEN <<X>> ELSE <<>>)
         \o (IF t.priority_level.some THEN <<PriorityToString(t.priority_level.val)>> ELSE <<>>)
         \o (IF t.completion_date.some THEN <<DateToString(t.completion_date.val)>> ELSE <<>>)
         \o (IF t.creation_date.some THEN <<DateToString(t.creation_date.val)>> ELSE <<>>)
         \o <<t.description>>
         \o (IF t.tags.some THEN <<TagCollectionToString(t.tags.val)>> ELSE <<>>),
         <<SP>>)

---------------------------------------------------------------------------
(* Note (core/note.rs) *)

Hash == "#"
MetaStart == <<">", SP>>
Cre == <<"c", "r", "e", ":">>
Mod == <<"m", "o", "d", ":">>
GuidKey == <<"g", "u", "i", "d", ":">>

Repeat(c, n) == [i \in 1..n |-> c]

\* The metadata of Note::from_vec, from its parsed fields; the tags are parsed
\* last.
MetaTags(creation_date, modification_date, guid, tags) ==
    IF ~IsOk(guid) THEN Err
    ELSE IF ~IsOk(tags) THEN tags
    ELSE Ok([creation_date |-> creation_date.val,
             modification_date |-> modification_date.val,
             guid |-> guid.val,
             tags |-> tags.val])

\* Third metadata is note id: the rest is cut at its first space, and what
\* follows is the tag string.
MetaGuid(creation_date, modification_date, guid_str, tag_str) ==
    MetaTags(creation_date, modification_date, GuidFromStr(Remove(guid_str, GuidKey)),
             IF tag_str = <<>> THEN Ok(<<>>) ELSE TagCollectionFromStr(Trim(tag_str)))

MetaThird(creation_date, modification_date, metadata, third) ==
    IF ~IsOk(modification_date) THEN Err
    ELSE MetaGuid(creation_date, modification_date,
                  IF third.some THEN third.val.head ELSE Trim(metadata),
                  IF third.some THEN third.val.tail ELSE <<>>)

\* Second metadata is modification date
MetaSecond(creation_date, second) ==
    IF ~IsOk(creation_date) THEN Err
    ELSE IF ~second.some THEN Err
    ELSE MetaThird(creation_date, DateFromStr(Remove(second.val.head, Mod)),
                   second.val.tail, SplitOnce(second.val.tail, SP))

\* First metadata is creation date
MetaFirst(first) ==
    IF ~first.some THEN Err
    ELSE MetaSecond(DateFromStr(Remove(first.val.head, Cre)),
                    SplitOnce(Trim(first.val.tail), SP))

\* The metadata fields of Note::from_vec, from the second line of the block.
NoteMetadata(line) == MetaFirst(SplitOnce(Remove(line, MetaStart), SP))

\* The Note of the block value, of its heading cut at the first space and of
\* the outcome meta of its metadata line
NoteOfBlock(value, heading, meta) ==
    IF ~heading.some THEN Err
    ELSE IF Repeat(Hash, Len(Trim(heading.val.head))) # heading.val.head THEN Err
    ELSE IF ~StartsWith(value[2], MetaStart) THEN Panic
    ELSE IF ~IsOk(meta) THEN meta
    ELSE Ok([lvl |-> Len(heading.val.head),
             title |-> Trim(heading.val.tail),
             creation_date |-> meta.val.creation_date,
             modification_date |-> meta.val.modification_date,
             guid |-> meta.val.guid,
             tags |-> meta.val.tags,
             content |-> Drop(value, 2)])

\* Note::from_vec with the length test one too low: a block of heading and
\* metadata alone passes it.
NoteFromVecTwoLines(value) ==
    IF Len(value) < 2 THEN Err
    ELSE NoteOfBlock(value, SplitOnce(value[1], SP), NoteMetadata(value[2]))

\* Note::from_vec
NoteFromVec(value) ==
    IF Len(value) < 3 THEN Err
    ELSE NoteOfBlock(value, SplitOnce(value[1], SP), NoteMetadata(value[2]))

\* Result::unwrap
Unwrap(r) == IF IsOk(r) THEN r ELSE Panic

\* impl From<Vec<String>> for Note: from_vec(value).unwrap()
NoteFrom(value) == Unwrap(NoteFromVec(value))

\* impl Into<Vec<String>> for &Note
NoteToVec(note) ==
    <<Repeat(Hash, note.lvl) \o <<SP>> \o Trim(note.title),
      Trim(MetaStart \o Cre \o DateToString(note.creation_date) \o <<SP>>
           \o Mod \o DateToString(note.modification_date) \o <<SP>>
           \o GuidKey \o GuidToString(note.guid) \o <<SP>>
           \o TagCollectionToString(note.tags))>>
    \o note.content

---------------------------------------------------------------------------
(* OrgDocument and OrgDocumentParser (io.rs) *)

TasksMarker == <<"#", "#", SP, "T", "a", "s", "k", "s">>
NotesMarker == <<"#", "#", SP, "N", "o", "t", "e", "s">>
H2 == <<"#", "#", SP>>
H3 == <<"#", "#", "#", SP>>

\* The file at the document path: its bytes, or no file there
NoFile == [exists |-> FALSE, bytes |-> <<>>]
FileOf(bytes) == [exists |-> TRUE, bytes |-> bytes]

\* OrgDocument::default()
DefaultDocument ==
    [preample |-> <<>>, tasks |-> <<>>, between |-> <<>>, notes |-> <<>>, post |-> <<>>]

\* OrgDocumentParser::default()
DefaultParser == [state |-> "BeforeTasks", acc |-> <<>>]

\* document.notes.push(note) of a note that Note::from has built
PushNote(d, n) ==
    IF IsOk(n) THEN Ok([d EXCEPT !.notes = Append(@, n.val)]) ELSE Panic

\* The document after the accumulated note block is pushed, when there is one.
Flush(acc, d) ==
    IF acc = <<>> THEN Ok(d) ELSE PushNote(d, NoteFrom(acc))

\* The step of the parser and the document it leaves
Step(p, dd) == Ok([parser |-> p, doc |-> dd])

\* The parser in a new state, its accumulated lines cleared
Goto(state) == [state |-> state, acc |-> <<>>]

\* A heading met in the notes section, after the flush f of the block before it
NotesHeading(f, line) ==
    IF ~IsOk(f) THEN Panic
    ELSE IF StartsWith(line, H2)
    THEN Step(Goto("AfterNotes"), [f.val EXCEPT !.post = Append(@, line)])
    ELSE Step([state |-> "InNotes", acc |-> <<line>>], f.val)

\* document.tasks.push(Task::from_str(line).unwrap())
PushParsedTask(parser, d, t) ==
    IF IsOk(t) THEN Step(parser, [d EXCEPT !.tasks = Append(@, t.val)]) ELSE Panic

\* OrgDocumentParser::parse: the parser and document after one line.
ParseLine(parser, d, line) ==
    LET st == parser.state
    IN IF st = "BeforeTasks" /\ line = TasksMarker THEN Step(Goto("InTasks"), d)
       ELSE IF st = "InTasks" /\ line = NotesMarker THEN Step(Goto("InNotes"), d)
       ELSE IF st = "InTasks" /\ StartsWith(line, H2)
       THEN Step(Goto("BetweenTasksAndNotes"), [d EXCEPT !.between = Append(@, line)])
       ELSE IF st = "BetweenTasksAndNotes" /\ line = NotesMarker THEN Step(Goto("InNotes"), d)
       ELSE IF st = "InNotes" /\ (StartsWith(line, H2) \/ StartsWith(line, H3))
       THEN NotesHeading(Flush(parser.acc, d), line)
       ELSE IF st = "BeforeTasks" THEN Step(parser, [d EXCEPT !.preample = Append(@, line)])
       ELSE IF st = "InTasks"
       THEN PushParsedTask(parser, d, TaskFromStr(line))
       ELSE IF st = "BetweenTasksAndNotes"
       THEN Step(parser, [d EXCEPT !.between = Append(@, line)])
       ELSE IF st = "InNotes"
       THEN Step([parser EXCEPT !.acc = Append(@, line)], d)
       ELSE Step(parser, [d EXCEPT !.post = Append(@, line)])

\* finish that leaves the accumulated lines of the last block unflushed
FinishWithoutFlush(parser, d) == Ok(d)

\* OrgDocumentParser::finish
Finish(parser, d) ==
    IF parser.state = "InNotes" THEN Flush(parser.acc, d) ELSE Ok(d)

\* BufRead::lines of the bytes of a file
Lines(bytes) ==
    LET pieces == Split(bytes, NL)
    IN IF pieces[Len(pieces)] = <<>> THEN SubSeq(pieces, 1, Len(pieces) - 1) ELSE pieces

\* ReadLine without the test of the line: an empty line reaches the parser.
ReadLineUnfiltered(p, d, line) == ParseLine(p, d, line)

\* One round of the loop of OrgDocument::from: a line that is not empty is
\* handed to the parser.
ReadLine(p, d, line) == IF line = <<>> THEN Step(p, d) ELSE ParseLine(p, d, line)

\* The loop of OrgDocument::from over the lines, and finish.
RECURSIVE ParseLines(_, _, _)
RestOfLines(r, lines) ==
    IF IsOk(r) THEN ParseLines(r.val.parser, r.val.doc, lines) ELSE Panic

ParseLines(p, d, lines) ==
    IF lines = <<>> THEN Finish(p, d)
    ELSE RestOfLines(ReadLine(p, d, Head(lines)), Tail(lines))

\* OrgDocument::from: File::open fails on a missing file
From(f) ==
    IF ~f.exists THEN Err ELSE ParseLines(DefaultParser, DefaultDocument, Lines(f.bytes))

\* OrgDocument::len
DocLen(d) == <<Len(d.tasks), Len(d.notes)>>

\* writeln! of each line
RECURSIVE Writeln(_)
Writeln(lines) ==
    IF lines = <<>> THEN <<>> ELSE Head(lines) \o <<NL>> \o Writeln(Tail(lines))

RECURSIVE NoteLines(_)
NoteLines(notes) ==
    IF notes = <<>> THEN <<>>
    ELSE NoteToVec(Head(notes)) \o <<<<>>>> \o NoteLines(Tail(notes))

\* OrgDocument::write: the bytes written to the buffer
Write(d) ==
    Writeln(d.preample
            \o <<<<>>, TasksMarker>>
            \o [i \in 1..Len(d.tasks) |-> TaskToString(d.tasks[i])]
            \o <<<<>>>>
            \o (IF d.between # <<>> THEN d.between \o <<<<>>>> ELSE <<>>)
            \o <<NotesMarker, <<>>>>
            \o NoteLines(d.notes)
            \o d.post)

\* The bytes of a file opened with write(true) alone, after bytes are
\* written from its start: it is neither truncated nor created.
Overwrite(old, bytes) ==
    IF Len(old) > Len(bytes) THEN bytes \o Drop(old, Len(bytes)) ELSE bytes

\* OrgDocument::to: File::options().write(true).open(path), then write
To(d, f) == IF ~f.exists THEN Err ELSE Ok(FileOf(Overwrite(f.bytes, Write(d))))

---------------------------------------------------------------------------
(* TagSuggestions (io.rs): the tags of a document in five sorted buckets *)

\* The characters of the tags in ascending byte order, as Ord for String
\* compares them.
ByteOrder == <<"!", "+", ":", "@", "A", "a", "b", "c", "k", "p">>

ByteRank(c) == CHOOSE i \in 1..Len(ByteOrder) : ByteOrder[i] = c

\* Ord for String: a < b
RECURSIVE StrLess(_, _)
StrLess(a, b) ==
    IF b = <<>> THEN FALSE
    ELSE IF a = <<>> THEN TRUE
    ELSE IF Head(a) = Head(b) THEN StrLess(Tail(a), Tail(b))
    ELSE ByteRank(Head(a)) < ByteRank(Head(b))

\* One string put into a sorted vector, after the elements not above it
RECURSIVE SortedInsert(_, _)
SortedInsert(x, sorted) ==
    IF sorted = <<>> THEN <<x>>
    ELSE IF StrLess(x, Head(sorted)) THEN <<x>> \o sorted
    ELSE <<Head(sorted)>> \o SortedInsert(x, Tail(sorted))

\* Vec::sort
RECURSIVE Sort(_)
Sort(strs) ==
    IF strs = <<>> THEN <<>> ELSE SortedInsert(Head(strs), Sort(Tail(strs)))

\* HashSet::extend, then into_iter().collect(): every string once.  The
\* order of the iteration is not fixed; the sort that follows fixes it.
RECURSIVE Distinct(_)
Distinct(strs) ==
    IF strs = <<>> THEN <<>>
    ELSE LET rest == Distinct(Tail(strs))
         IN IF \E i \in 1..Len(rest) : rest[i] = Head(strs) THEN rest
            ELSE <<Head(strs)>> \o rest

\* context_tags(), project_tags(), person_tags(), custom_tags(),
\* oneoff_tags() of a TagCollection: its tags of one variant, as strings
RECURSIVE TagsOfKind(_, _)
TagsOfKind(tags, kind) ==
    IF tags = <<>> THEN <<>>
    ELSE (IF Head(tags).kind = kind THEN <<TagToString(Head(tags))>> ELSE <<>>)
         \o TagsOfKind(Tail(tags), kind)

\* The strings the two loops of collect_unique_tags hand to one HashSet:
\* from the tasks that have a tag collection, then from the notes.
RECURSIVE TaskTagsOfKind(_, _)
TaskTagsOfKind(tasks, kind) ==
    IF tasks = <<>> THEN <<>>
    ELSE (IF Head(tasks).tags.some THEN TagsOfKind(Head(tasks).tags.val, kind) ELSE <<>>)
         \o TaskTagsOfKind(Tail(tasks), kind)

RECURSIVE NoteTagsOfKind(_, _)
NoteTagsOfKind(notes, kind) ==
    IF notes = <<>> THEN <<>>
    ELSE TagsOfKind(Head(notes).tags, kind) \o NoteTagsOfKind(Tail(notes), kind)

\* Bucket with the strings kept as often as they occur: a Vec in place of
\* the HashSet.
BucketWithRepeats(d, kind) ==
    Sort(TaskTagsOfKind(d.tasks, kind) \o NoteTagsOfKind(d.notes, kind))

\* One bucket of collect_unique_tags
Bucket(d, kind) ==
    Sort(Distinct(TaskTagsOfKind(d.tasks, kind) \o NoteTagsOfKind(d.notes, kind)))

\* OrgDocument::collect_unique_tags
CollectUniqueTags(d) ==
    [context |-> Bucket(d, "Context"),
     project |-> Bucket(d, "Project"),
     person |-> Bucket(d, "Person"),
     custom |-> Bucket(d, "Custom"),
     oneoff |-> Bucket(d, "OneOff")]

\* No TagSuggestions collected yet
NoSuggestions ==
    [context |-> <<>>, project |-> <<>>, person |-> <<>>, custom |-> <<>>, oneoff |-> <<>>]

\* The tags of bucket that start with prefix, both in lower case
Matching(bucket, prefix) ==
    SelectSeq(bucket, LAMBDA tag : StartsWith(ToLowercase(tag), ToLowercase(prefix)))

\* TagSuggestions::all_tags: the five buckets in one sorted vector
AllTags(ts) == Sort(ts.context \o ts.project \o ts.person \o ts.custom \o ts.oneoff)

\* TagSuggestions::matching_prefix
MatchingPrefix(ts, prefix) == Matching(AllTags(ts), prefix)

\* TagSuggestions::suggestions_for_prefix: the bucket is taken by the first
\* test that the prefix passes.
SuggestionsForPrefix(ts, prefix) ==
    IF StartsWith(prefix, <<"@">>) THEN Matching(ts.context, prefix)
    ELSE IF StartsWith(prefix, <<"+">>) THEN Matching(ts.project, prefix)
    ELSE IF StartsWith(prefix, <<"p">>) /\ Contains(prefix, <<":">>)
    THEN Matching(ts.person, prefix)
    ELSE IF StartsWith(prefix, <<"!">>) THEN Matching(ts.oneoff, prefix)
    ELSE IF Contains(prefix, <<":">>) THEN Matching(ts.custom, prefix)
    ELSE MatchingPrefix(ts, prefix)

---------------------------------------------------------------------------
(* AutocompletionWidget (orgflow-tui autocompletion.rs) *)

\* AutocompletionWidget::new
NewWidget ==
    [suggestions |-> <<>>, selected_index |-> 0, visible |-> FALSE,
     current_input |-> <<>>, current_tag_type |-> "Mixed"]

\* is_tag_prefix
IsTagPrefix(word) ==
    /\ word # <<>>
    /\ \/ StartsWith(word, <<"@">>)
       \/ StartsWith(word, <<"+">>)
       \/ StartsWith(word, <<"!">>)
       \/ StartsWith(word, <<"p">>) /\ (Contains(word, <<":">>) \/ Len(word) >= 2)
       \/ Contains(word, <<":">>) /\ Len(word) > 1

\* determine_tag_type
DetermineTagType(word) ==
    IF StartsWith(word, <<"@">>) THEN "Context"
    ELSE IF StartsWith(word, <<"+">>) THEN "Project"
    ELSE IF StartsWith(word, <<"!">>) THEN "OneOff"
    ELSE IF StartsWith(word, <<"p", ":">>) THEN "Person"
    ELSE IF Contains(word, <<":">>) /\ Len(word) > 1 THEN "Custom"
    ELSE "Mixed"

\* words.last().unwrap_or(&"") of input.split_whitespace()
LastOfWords(words) == IF words = <<>> THEN <<>> ELSE words[Len(words)]

\* update_suggestions where the last word is a tag prefix
ShowSuggestions(w, text, last_word, found) ==
    [w EXCEPT !.current_input = text,
              !.suggestions = found,
              !.current_tag_type = DetermineTagType(last_word),
              !.visible = found # <<>>,
              !.selected_index = 0]

\* update_suggestions where it is not: selected_index is left as it is
ClearSuggestions(w, text) ==
    [w EXCEPT !.current_input = text,
              !.visible = FALSE,
              !.suggestions = <<>>,
              !.current_tag_type = "Mixed"]

UpdateWithLastWord(w, text, ts, last_word) ==
    IF IsTagPrefix(last_word)
    THEN ShowSuggestions(w, text, last_word, SuggestionsForPrefix(ts, last_word))
    ELSE ClearSuggestions(w, text)

\* update_suggestions
UpdateSuggestions(w, text, ts) ==
    UpdateWithLastWord(w, text, ts, LastOfWords(SplitWhitespace(text)))

\* select_previous; selected_index is a usize counted from 0
SelectPrevious(w) ==
    IF w.suggestions = <<>> THEN w
    ELSE [w EXCEPT !.selected_index =
              IF @ = 0 THEN Len(w.suggestions) - 1 ELSE @ - 1]

\* select_next without the remainder
SelectNextNoWrap(w) ==
    IF w.suggestions = <<>> THEN w ELSE [w EXCEPT !.selected_index = @ + 1]

\* select_next
SelectNext(w) ==
    IF w.suggestions = <<>> THEN w
    ELSE [w EXCEPT !.selected_index = (@ + 1) % Len(w.suggestions)]

\* get_selected: suggestions.get(selected_index)
GetSelected(w) ==
    IF w.selected_index < Len(w.suggestions)
    THEN Some(w.suggestions[w.selected_index + 1])
    ELSE None

\* is_visible
IsVisible(w) == w.visible /\ w.suggestions # <<>>

\* hide
Hide(w) ==
    [w EXCEPT !.visible = FALSE,
              !.suggestions = <<>>,
              !.selected_index = 0,
              !.current_tag_type = "Mixed"]

---------------------------------------------------------------------------
(* SessionManager (orgflow-tui session.rs) *)

save_threshold == 50

\* SessionManager::new.  keys_since_save, save_failed, last_save and
\* saved_after are no fields of the SessionManager: the key events handled
\* since the last save that succeeded, whether a save has failed, the outcome
\* of the save_session of the last step, and the key events that the last
\* save that succeeded has saved.
NewSession ==
    [keystroke_counter |-> 0, needs_save |-> FALSE,
     keys_since_save |-> 0, save_failed |-> FALSE, last_save |-> "none", saved_after |-> 0]

\* update_state: the change is tracked
UpdateState(s) ==
    [s EXCEPT !.keystroke_counter = @ + 1,
              !.needs_save = TRUE,
              !.keys_since_save = @ + 1,
              !.last_save = "none"]

\* should_save without the keystroke threshold
ShouldSaveDebounceOnly(s, elapsed) ==
    IF ~s.needs_save THEN FALSE ELSE elapsed

\* should_save; elapsed: the debounce duration has passed since the change
ShouldSave(s, elapsed) ==
    IF ~s.needs_save THEN FALSE
    ELSE IF elapsed THEN TRUE
    ELSE IF s.keystroke_counter >= save_threshold THEN TRUE
    ELSE FALSE

\* save_session; written: the write and the rename of the file succeed
SaveSession(s, written) ==
    IF ~s.needs_save THEN [s EXCEPT !.last_save = "nothing"]
    ELSE IF ~written THEN [s EXCEPT !.save_failed = TRUE, !.last_save = "err"]
    ELSE [s EXCEPT !.needs_save = FALSE,
                   !.keystroke_counter = 0,
                   !.keys_since_save = 0,
                   !.saved_after = s.keys_since_save,
                   !.last_save = "ok"]

\* force_save
ForceSave(s, written) == SaveSession([s EXCEPT !.needs_save = TRUE], written)

\* The session after one key event of App::run: update_session_state, then
\* save_session when should_save says so
AfterKey(s, elapsed, written) ==
    IF ShouldSave(s, elapsed) THEN SaveSession(s, written) ELSE s

---------------------------------------------------------------------------
(* The values the variables hold while no operation has set them *)

Blank == [st |-> "none", val |-> <<>>]

Idle(kind, text) ==
    /\ pc = kind
    /\ input = text
    /\ result = Blank
    /\ output = <<>>
    /\ again = Blank
    /\ file = NoFile
    /\ doc = DefaultDocument
    /\ loaded = "none"
    /\ tag_suggestions = NoSuggestions
    /\ from_parser = DefaultParser

---------------------------------------------------------------------------
(* Tags: a token or a token string is parsed, rendered and parsed again *)

TagAlphabet == {"p", ":", "S", "@", SP, TAB}

LongTagSources ==
    { <<"p", ":", "p", "p", ":", ":">>,
      <<"s", ":", "h", "o", "l", "d", "(", "a", ")">>,
      <<"s", ":", "t", "o", "d", "o">>,
      <<"s", ":", "d", "o", "n", "e", "(", "a", ")">>,
      <<"s", ":", "h", "o", "l", "d", "(", "(", "a", ")", ")">>,
      <<"s", ":", "w", "a", "i", "t", "(", "w", "a", "i", "t", "(", "a", ")", ")">>,
      <<"s", ":", "h", "o", "l", "d", "(", "s", ":", "a", ")">>,
      <<"s", ":", "c", "a", "n", "c", "e", "l", "l", "e", "d", "(", ")">>,
      <<"e", "s", "t", ":", "0", "7", "m", "i", "n">>,
      <<"r", "e", "c", ":", "+", "2", "w">>,
      <<"r", "e", "c", ":", "9", "y">>,
      <<"r", "e", "c", ":", "+", "2", "4">>,
      <<"t", ":", "2025-3-12">>,
      <<"t", ":", "2025-44-44">>,
      <<"t", ":", "t", ":", "2025-3-12">>,
      <<"n", ":", "A1A2A3A4-B1B2-C1C2-D1D2-D3D4D5D6D7D8">>,
      <<"n", ":", "7d8">>,
      <<"+", "a", SP, "p", ":", "b", SP, "k", ":", "A">>,
      <<"+", "a", SP, "b">>,
      <<"H", "e", "l", "l", "o">> }

\* Tokens with counts at the limits of TimeDelta, i64 and u64
CountSources ==
    { <<"r", "e", "c", ":", "0", "y">>,
      <<"r", "e", "c", ":", "5", "2", "y">>,
      <<"r", "e", "c", ":", "2", "9", "3", "2", "7", "4", "7", "0", "1", "y">>,
      <<"r", "e", "c", ":", "2", "9", "3", "2", "7", "4", "7", "0", "2", "y">>,
      <<"r", "e", "c", ":", "+", "3", "5", "4", "7", "4", "5", "0", "7", "8", "3", "4", "0", "5", "6", "8", "3", "0", "1", "y">>,
      <<"r", "e", "c", ":", "1", "8", "4", "4", "6", "7", "4", "4", "0", "7", "3", "7", "0", "9", "5", "5", "1", "6", "1", "5", "y">>,
      <<"r", "e", "c", ":", "1", "8", "4", "4", "6", "7", "4", "4", "0", "7", "3", "7", "0", "9", "5", "5", "1", "6", "1", "6", "y">>,
      <<"r", "e", "c", ":", "1", "5", "2", "5", "0", "2", "8", "4", "4", "5", "2", "w">>,
      <<"r", "e", "c", ":", "1", "5", "2", "5", "0", "2", "8", "4", "4", "5", "3", "w">>,
      <<"r", "e", "c", ":", "1", "0", "6", "7", "5", "1", "9", "9", "1", "1", "6", "7", "d">>,
      <<"r", "e", "c", ":", "+", "1", "0", "6", "7", "5", "1", "9", "9", "1", "1", "6", "8", "d">>,
      <<"r", "e", "c", ":", "9", "2", "2", "3", "3", "7", "2", "0", "3", "6", "8", "5", "4", "7", "7", "5", "8", "0", "8", "d">>,
      <<"r", "e", "c", ":", "1", "8", "4", "4", "6", "7", "4", "4", "0", "7", "3", "7", "0", "9", "5", "5", "1", "6", "1", "5", "d">>,
      <<"e", "s", "t", ":", "3", "0", "7", "4", "4", "5", "7", "3", "4", "5", "6", "1", "8", "2", "5", "8", "6", "0", "m", "i", "n">>,
      <<"e", "s", "t", ":", "3", "0", "7", "4", "4", "5", "7", "3", "4", "5", "6", "1", "8", "2", "5", "8", "6", "1", "m", "i", "n">>,
      <<"e", "s", "t", ":", "1", "8", "4", "4", "6", "7", "4", "4", "0", "7", "3", "7", "0", "9", "5", "5", "1", "6", "1", "6", "m", "i", "n">> }

TagSources == TextsUpTo(TagAlphabet, MaxTagLen) \cup LongTagSources \cup CountSources

ParseUnit(unit, s) ==
    IF unit = "Tag"
    THEN LET t == TagFromStr(s) IN IF IsOk(t) THEN Ok(<<t.val>>) ELSE t
    ELSE TagCollectionFromStr(s)

RenderUnit(unit, tags) ==
    IF unit = "Tag" THEN TagToString(tags[1]) ELSE TagCollectionToString(tags)

InitTag == \E unit \in {"Tag", "TagCollection"}, s \in TagSources :
    /\ Idle("tag:start", [unit |-> unit, text |-> s])
    /\ overflow_checks \in BOOLEAN
    /\ widget = NewWidget
    /\ session = NewSession

\* Tag::from_str(input)
ParseTag ==
    /\ pc = "tag:start"
    /\ input.unit = "Tag"
    /\ result' = ParseUnit("Tag", input.text)
    /\ pc' = "tag:parsed"
    /\ UNCHANGED <<input, output, again, file, doc, loaded, tag_suggestions,
                 overflow_checks, from_parser,
                   widget, session>>

\* TagCollection::from_str(input)
ParseTagCollection ==
    /\ pc = "tag:start"
    /\ input.unit = "TagCollection"
    /\ result' = ParseUnit("TagCollection", input.text)
    /\ pc' = "tag:parsed"
    /\ UNCHANGED <<input, output, again, file, doc, loaded, tag_suggestions,
                 overflow_checks, from_parser,
                   widget, session>>

\* to_string() of the parsed value
RenderTag ==
    /\ pc = "tag:parsed"
    /\ IsOk(result)
    /\ output' = RenderUnit(input.unit, result.val)
    /\ pc' = "tag:rendered"
    /\ UNCHANGED <<input, result, again, file, doc, loaded, tag_suggestions,
                 overflow_checks, from_parser,
                   widget, session>>

\* from_str of the rendering
ReparseTag ==
    /\ pc = "tag:rendered"
    /\ again' = ParseUnit(input.unit, output)
    /\ pc' = "tag:reparsed"
    /\ UNCHANGED <<input, result, output, file, doc, loaded, tag_suggestions,
                 overflow_checks, from_parser,
                   widget, session>>

NextTag == ParseTag \/ ParseTagCollection \/ RenderTag \/ ReparseTag

SpecTag == InitTag /\ [][NextTag]_vars

---------------------------------------------------------------------------
(* Tasks: a line is parsed, rendered and parsed again *)

TaskWords ==
    { X,
      <<"(", "A", ")">>,
      <<"(", "B", ")">>,
      <<"2025-11-12">>,
      <<"2022-11-12">>,
      <<"2025-3-12">>,
      <<"f", "o", "o">>,
      <<"@", "a">>,
      <<"t", ":", "x">>,
      <<"S", ":", "x">> }

RECURSIVE WordSeqs(_, _)
WordSeqs(words, n) ==
    IF n = 0 THEN {<<>>}
    ELSE LET shorter == WordSeqs(words, n - 1)
         IN shorter \cup {Append(ws, w) : ws \in shorter, w \in words}

TaskLines == {Join(ws, <<SP>>) : ws \in WordSeqs(TaskWords, MaxWords)}

\* Stamp that leaves a creation date of the text alone
StampUndated(t) ==
    IF IsOk(t)
    THEN Ok([t.val EXCEPT !.creation_date = IF @.some THEN @ ELSE Some(Today)])
    ELSE Panic

\* The parsed task unwrapped, with today as its creation date
Stamp(t) ==
    IF IsOk(t) THEN Ok([t.val EXCEPT !.creation_date = Some(Today)]) ELSE Panic

\* Task::with_today(text): from_str(text).unwrap(), then today as creation date
WithToday(text) == Stamp(TaskFromStr(text))

InitTask == \E line \in TaskLines :
    /\ Idle("task:start", line)
    /\ overflow_checks \in BOOLEAN
    /\ widget = NewWidget
    /\ session = NewSession

\* Task::from_str(input)
ParseTask ==
    /\ pc = "task:start"
    /\ result' = TaskFromStr(input)
    /\ pc' = "task:parsed"
    /\ UNCHANGED <<input, output, again, file, doc, loaded, tag_suggestions,
                 overflow_checks, from_parser,
                   widget, session>>

\* task.to_string()
RenderTask ==
    /\ pc = "task:parsed"
    /\ IsOk(result)
    /\ output' = TaskToString(result.val)
    /\ pc' = "task:rendered"
    /\ UNCHANGED <<input, result, again, file, doc, loaded, tag_suggestions,
                 overflow_checks, from_parser,
                   widget, session>>

\* Task::from_str of the rendering
ReparseTask ==
    /\ pc = "task:rendered"
    /\ again' = TaskFromStr(output)
    /\ pc' = "task:reparsed"
    /\ UNCHANGED <<input, result, output, file, doc, loaded, tag_suggestions,
                 overflow_checks, from_parser,
                   widget, session>>

\* Task::with_today(input), next to the parsed task
StampTask ==
    /\ pc = "task:parsed"
    /\ again' = WithToday(input)
    /\ pc' = "task:stamped"
    /\ UNCHANGED <<input, result, output, file, doc, loaded, tag_suggestions,
                 overflow_checks, from_parser,
                   widget, session>>

NextTask == ParseTask \/ RenderTask \/ ReparseTask \/ StampTask

SpecTask == InitTask /\ [][NextTask]_vars

---------------------------------------------------------------------------
(* Notes: a block of lines is parsed, rendered and parsed again *)

\* "> cre:<c> mod:<m> guid:<g>", then a space and the tag string when there is one
MetaLine(c, m, g, tags) ==
    MetaStart \o Cre \o <<c>> \o <<SP>> \o Mod \o <<m>> \o <<SP>> \o GuidKey \o <<g>>
    \o (IF tags = <<>> THEN <<>> ELSE <<SP>> \o tags)

TagStrings == {<<"@", "a">>, <<"@", "a", SP, "+", "b">>}

BareMetadata == {MetaLine(c, m, g, <<>>) : c \in DateLiterals, m \in DateLiterals, g \in GuidLiterals}

TaggedMetadata ==
    {MetaLine(c, m, g, tags) :
        c \in DateLiterals, m \in DateLiterals, g \in GuidLiterals, tags \in TagStrings}

HeadingLines ==
    { <<Hash, SP, "T">>,
      <<Hash, Hash, Hash, SP, "T">>,
      <<"T">>,
      <<SP, "T">>,
      <<">", ">", ">", SP, "T">> }

MetadataLines ==
    { MetaLine("2025-3-12", "2022-11-12", "A1A2A3A4-B1B2-C1C2-D1D2-D3D4D5D6D7D8", <<>>),
      MetaLine("2022-11-12", "2022-11-12", "a1a2a3a4-b1b2-c1c2-d1d2-d3d4d5d6d7d8",
               <<"@", "a", SP, "+", "b">>),
      MetaLine("2025-44-44", "2022-11-12", "a1a2a3a4-b1b2-c1c2-d1d2-d3d4d5d6d7d8", <<>>),
      MetaLine("2022-11-12", "2022-11-12", "7d8", <<>>),
      MetaStart \o Cre \o <<"2022-11-12", SP>> \o Mod \o <<"2022-11-12", SP, "@", "a">>,
      MetaStart \o Mod \o <<"2022-11-12", SP, "@", "a", SP, "+", "b">>,
      Cre \o <<"2022-11-12", SP>> \o Mod \o <<"2022-11-12", SP>> \o GuidKey
          \o <<"a1a2a3a4-b1b2-c1c2-d1d2-d3d4d5d6d7d8">>,
      MetaStart \o <<"2022-11-12", SP, "2022-11-12", SP, "a1a2a3a4-b1b2-c1c2-d1d2-d3d4d5d6d7d8">>,
      MetaStart \o Mod \o <<"2022-11-12", SP>> \o Cre \o <<"2022-11-12", SP>> \o GuidKey
          \o <<"a1a2a3a4-b1b2-c1c2-d1d2-d3d4d5d6d7d8">> }

ContentLines == {<<"-", SP, "c">>, <<SP, "d", SP>>}

NoteBlocks == WordSeqs(HeadingLines \cup MetadataLines \cup ContentLines, MaxNoteLines)

InitNote == \E block \in NoteBlocks :
    /\ Idle("note:start", block)
    /\ overflow_checks \in BOOLEAN
    /\ widget = NewWidget
    /\ session = NewSession

\* Note::from_vec(input)
ParseNote ==
    /\ pc = "note:start"
    /\ result' = NoteFromVec(input)
    /\ pc' = "note:parsed"
    /\ UNCHANGED <<input, output, again, file, doc, loaded, tag_suggestions,
                 overflow_checks, from_parser,
                   widget, session>>

\* (&note).into(): the lines of the note
RenderNote ==
    /\ pc = "note:parsed"
    /\ IsOk(result)
    /\ output' = NoteToVec(result.val)
    /\ pc' = "note:rendered"
    /\ UNCHANGED <<input, result, again, file, doc, loaded, tag_suggestions,
                 overflow_checks, from_parser,
                   widget, session>>

\* Note::from_vec of the rendering
ReparseNote ==
    /\ pc = "note:rendered"
    /\ again' = NoteFromVec(output)
    /\ pc' = "note:reparsed"
    /\ UNCHANGED <<input, result, output, file, doc, loaded, tag_suggestions,
                 overflow_checks, from_parser,
                   widget, session>>

NextNote == ParseNote \/ RenderNote \/ ReparseNote

SpecNote == InitNote /\ [][NextNote]_vars

---------------------------------------------------------------------------
(* Documents: a file is loaded, tasks are pushed, the document is written  *)
(* to a buffer or saved to the file                                        *)

Foo == <<"f", "o", "o">>

Preamble == <<<<"i", "n", "t", "r", "o">>>>

TaskBlocks ==
    { <<>>,
      <<Foo \o <<SP, "@", "a">>>>,
      <<<<"(", "A", ")", SP, "(", "B", ")", SP>> \o Foo, X \o <<SP>> \o Foo>>,
      <<X \o <<SP>> \o X \o <<SP>> \o Foo>> }

Betweens == {<<>>, <<H2 \o <<"B">>, <<"b">>>>}

CanonicalMeta ==
    MetaLine("2022-11-12", "2022-11-12", "a1a2a3a4-b1b2-c1c2-d1d2-d3d4d5d6d7d8", <<>>)

NoteSections ==
    { <<>>,
      <<H3 \o <<"T">>, CanonicalMeta, <<"-", SP, "c">>>>,
      <<H3 \o <<"T">>, CanonicalMeta \o <<SP, "@", "a">>, <<"c">>,
        H3 \o <<"U">>, CanonicalMeta, <<"d">>>>,
      <<H3 \o <<"T">>, CanonicalMeta>>,
      <<H3 \o <<"T">>, <<"-", SP, "c">>, <<"d">>>>,
      <<<<Hash, SP, "T">>, CanonicalMeta, <<"c">>,
        H3 \o <<"U">>, CanonicalMeta, <<"d">>>> }

Post == <<H2 \o <<"P">>, <<"q">>>>

\* The lines around the sections: none, or a preamble and a post section
Frames == {[pre |-> <<>>, post |-> <<>>], [pre |-> Preamble, post |-> Post]}

\* The lines of a note section with an empty line before every later block.
RECURSIVE Spaced(_)
Spaced(lines) ==
    IF lines = <<>> THEN <<>>
    ELSE (IF StartsWith(Head(lines), H3) THEN <<<<>>>> ELSE <<>>)
         \o <<Head(lines)>> \o Spaced(Tail(lines))

\* The text of a source file: in the layout OrgDocument::write gives it, but
\* for the last newline ("canonical"), without any empty line ("compact"), or
\* with an empty line more in front ("airy").
Layout(style, pre, tasks, between, notes, post) ==
    LET gap == IF style = "compact" THEN <<>> ELSE <<<<>>>>
        body == (IF style = "airy" THEN <<<<>>>> ELSE <<>>)
                \o pre \o gap \o <<TasksMarker>> \o tasks \o gap
                \o (IF between # <<>> THEN between \o gap ELSE <<>>)
                \o <<NotesMarker>>
                \o (IF style = "compact" THEN notes ELSE Spaced(notes))
                \o (IF style = "compact" \/ (notes = <<>> /\ post = <<>>) THEN <<>> ELSE <<<<>>>>)
                \o post
        bytes == Writeln(body)
    IN IF style = "canonical" /\ post # <<>>
       THEN SubSeq(bytes, 1, Len(bytes) - 1)
       ELSE bytes

SourceFiles ==
    {Layout(style, frame.pre, tasks, between, notes, frame.post) :
        style \in {"canonical", "compact", "airy"}, frame \in Frames, tasks \in TaskBlocks,
        between \in Betweens, notes \in NoteSections}
    \cup {<<>>, Writeln(Preamble),
          Writeln(<<NotesMarker, H3 \o <<"T">>, CanonicalMeta, <<"c">>>>),
          Writeln(<<TasksMarker, Foo \o <<SP>> \o X \o <<SP>> \o X, NotesMarker>>)}

QuickTasks ==
    { Foo,
      Foo \o <<SP, "@", "b", SP, "@", "a", SP, "+", "a", SP, "p", ":", "a">>,
      Foo \o <<SP, "!", "a", SP, "k", ":", "a", SP, "+", "b", SP, "!", "a">> }

\* OrgDocument::push_task
PushTaskTo(d, task) == [d EXCEPT !.tasks = Append(@, task)]

Running == pc \in {"doc:loaded", "doc:pushed", "doc:written", "doc:saved", "doc:collected"}

InitDoc ==
    /\ pc = "doc:start"
    /\ input = <<>>
    /\ result = Blank
    /\ output = <<>>
    /\ again = Blank
    /\ file \in {FileOf(bytes) : bytes \in SourceFiles} \cup {NoFile}
    /\ doc = DefaultDocument
    /\ loaded = "none"
    /\ tag_suggestions = NoSuggestions
    /\ from_parser = DefaultParser
    /\ overflow_checks \in BOOLEAN
    /\ widget = NewWidget
    /\ session = NewSession

\* OrgDocument::from(path); the caller takes an empty document when it
\* returns an error (App::new), and the program ends when it panics
Load ==
    /\ pc = "doc:start" \/ Running
    /\ \E r \in {From(file)} :
          /\ loaded' = r.st
          /\ doc' = IF IsOk(r) THEN r.val ELSE IF r = Err THEN DefaultDocument ELSE doc
          /\ pc' = IF r = Panic THEN "doc:aborted" ELSE "doc:loaded"
    /\ result' = Blank
    /\ output' = <<>>
    /\ UNCHANGED <<input, again, file, tag_suggestions, overflow_checks, from_parser,
                   widget, session>>

\* document.push_task(Task::with_today(text))
PushTask(text) ==
    /\ Running
    /\ Len(doc.tasks) < MaxTasks
    /\ \E t \in {WithToday(text)} :
          /\ doc' = IF IsOk(t) THEN PushTaskTo(doc, t.val) ELSE doc
          /\ pc' = IF IsOk(t) THEN "doc:pushed" ELSE "doc:aborted"
    /\ result' = Blank
    /\ output' = <<>>
    /\ UNCHANGED <<input, again, file, loaded, tag_suggestions, overflow_checks, from_parser,
                   widget, session>>

\* document.write(&mut cursor) on a buffer in memory
WriteBuffer ==
    /\ Running
    /\ output' = Write(doc)
    /\ pc' = "doc:written"
    /\ result' = Blank
    /\ UNCHANGED <<input, again, file, doc, loaded, tag_suggestions, overflow_checks, from_parser,
                   widget, session>>

\* document.to(path)
Save ==
    /\ Running
    /\ \E r \in {To(doc, file)} :
          /\ result' = IF IsOk(r) THEN Ok(<<>>) ELSE Err
          /\ file' = IF IsOk(r) THEN r.val ELSE file
    /\ pc' = "doc:saved"
    /\ output' = <<>>
    /\ UNCHANGED <<input, again, doc, loaded, tag_suggestions, overflow_checks, from_parser,
                   widget, session>>

\* document.collect_unique_tags()
CollectSuggestions ==
    /\ Running
    /\ tag_suggestions' = CollectUniqueTags(doc)
    /\ pc' = "doc:collected"
    /\ result' = Blank
    /\ output' = <<>>
    /\ UNCHANGED <<input, again, file, doc, loaded, overflow_checks, from_parser,
                   widget, session>>

NextDoc ==
    \/ Load
    \/ \E text \in QuickTasks : PushTask(text)
    \/ WriteBuffer
    \/ Save
    \/ CollectSuggestions

SpecDoc == InitDoc /\ [][NextDoc]_vars

---------------------------------------------------------------------------
(* Editing: tasks and notes are appended to a loaded or an empty document *)

\* Guid::new(): a fresh guid; every guid of the model is the same value
NewGuid == GuidOf("a1a2a3a4-b1b2-c1c2-d1d2-d3d4d5d6d7d8")

\* Note::with(title, content): the other fields from Default for Note
NoteWith(title, content) ==
    [lvl |-> 3,
     title |-> title,
     creation_date |-> Today,
     modification_date |-> Today,
     guid |-> NewGuid,
     tags |-> <<>>,
     content |-> content]

\* OrgDocument::push_note
PushNoteTo(d, note) == [d EXCEPT !.notes = Append(@, note)]

NoteTitles == {<<"T">>}

NoteContents == {<<>>, <<<<"c">>>>, <<<<>>>>, <<H2 \o <<"X">>>>, <<H3 \o <<"X">>>>}

EditFiles ==
    {NoFile,
     FileOf(Layout("canonical", <<>>, <<Foo \o <<SP, "@", "a">>>>, <<>>,
                   <<H3 \o <<"T">>, CanonicalMeta, <<"-", SP, "c">>>>, <<>>))}

InitEdit ==
    /\ pc = "doc:start"
    /\ input = <<>>
    /\ result = Blank
    /\ output = <<>>
    /\ again = Blank
    /\ file \in EditFiles
    /\ doc = DefaultDocument
    /\ loaded = "none"
    /\ tag_suggestions = NoSuggestions
    /\ from_parser = DefaultParser
    /\ overflow_checks \in BOOLEAN
    /\ widget = NewWidget
    /\ session = NewSession

\* document.push_note(Note::with(title, content))
AppendNote(title, content) ==
    /\ Running
    /\ Len(doc.notes) < MaxNotes
    /\ doc' = PushNoteTo(doc, NoteWith(title, content))
    /\ pc' = "doc:pushed"
    /\ result' = Blank
    /\ output' = <<>>
    /\ UNCHANGED <<input, again, file, loaded, tag_suggestions, overflow_checks, from_parser,
                   widget, session>>

NextEdit ==
    \/ Load
    \/ \E text \in QuickTasks : PushTask(text)
    \/ \E title \in NoteTitles, content \in NoteContents : AppendNote(title, content)
    \/ WriteBuffer
    \/ Save

SpecEdit == InitEdit /\ [][NextEdit]_vars

---------------------------------------------------------------------------
(* The loop of OrgDocument::from, line by line *)

ParserLines ==
    { TasksMarker, NotesMarker, H2 \o <<"P">>, H3 \o <<"T">>, CanonicalMeta, <<"c">>,
      <<>>, <<SP>>, Foo }

\* The lines of the source files, and every short sequence of parser lines
LineSequences ==
    {Lines(bytes) : bytes \in SourceFiles} \cup WordSeqs(ParserLines, MaxLines)

InitRead == \E lines \in LineSequences :
    /\ Idle("read:lines", lines)
    /\ overflow_checks \in BOOLEAN
    /\ widget = NewWidget
    /\ session = NewSession

\* One round of `for line in lines`: the next line is read, and handed to
\* parser.parse when it is not empty; a panic ends the program.
ReadNextLine ==
    /\ pc = "read:lines"
    /\ input # <<>>
    /\ \E r \in {ReadLine(from_parser, doc, Head(input))} :
          IF IsOk(r)
          THEN /\ from_parser' = r.val.parser
               /\ doc' = r.val.doc
               /\ input' = Tail(input)
               /\ pc' = "read:lines"
          ELSE /\ pc' = "read:aborted"
               /\ UNCHANGED <<from_parser, doc, input>>
    /\ UNCHANGED <<result, output, again, file, loaded, tag_suggestions, overflow_checks,
                   widget, session>>

\* parser.finish(&mut doc) after the last line
FinishRead ==
    /\ pc = "read:lines"
    /\ input = <<>>
    /\ \E r \in {Finish(from_parser, doc)} :
          IF IsOk(r)
          THEN doc' = r.val /\ pc' = "read:done" /\ loaded' = "ok"
          ELSE pc' = "read:aborted" /\ UNCHANGED <<doc, loaded>>
    /\ UNCHANGED <<input, result, output, again, file, tag_suggestions, overflow_checks,
                   from_parser,
                   widget, session>>

NextRead == ReadNextLine \/ FinishRead

SpecRead == InitRead /\ [][NextRead]_vars

---------------------------------------------------------------------------
(* The autocompletion popup: lookups in a tag index and moves of the selection *)

ContextBuckets ==
    { <<>>, <<<<"@", "A", "b">>>>, <<<<"@", "a">>>>, <<<<"@", "A", "b">>, <<"@", "a">>>>,
      <<<<"@", "A", "b">>, <<"@", "a">>, <<"@", "b">>>> }
ProjectBuckets == {<<>>, <<<<"+", "a">>>>}
PersonBuckets == {<<>>, <<<<"p", ":", "a">>>>}
CustomBuckets ==
    { <<>>, <<<<"k", ":", "a">>>>, <<<<"p", "k", ":", "a">>>>,
      <<<<"k", ":", "a">>, <<"p", "k", ":", "a">>>> }
OneOffBuckets == {<<>>, <<<<"!", "a">>>>}

\* The TagSuggestions of the model: every bucket sorted, with tags of its variant
TagIndexes ==
    [context : ContextBuckets, project : ProjectBuckets, person : PersonBuckets,
     custom : CustomBuckets, oneoff : OneOffBuckets]

Prefixes ==
    { <<>>, <<"@">>, <<"@", "a">>, <<"@", "A">>, <<"@", "b">>, <<"+">>, <<"+", "a">>,
      <<"p">>, <<"p", ":">>, <<"p", ":", "a">>, <<"p", "k">>, <<"p", "k", ":">>,
      <<"P", "K", ":">>, <<"k">>, <<"k", ":">>, <<"k", ":", "a">>, <<"!">>, <<"a">>,
      <<":">> }

TypedTexts ==
    { <<>>, Foo, Foo \o <<SP, "@">>, <<"@", "a">>, Foo \o <<SP, "+">>, <<"p", ":">>,
      <<"p", "k", ":">>, <<"k", ":">>, <<"!", "a">>, <<"p">>, <<"p", "k">>,
      <<"@", SP>> \o Foo, <<"+", "b">> }

InitWidget ==
    /\ pc = "widget:ready"
    /\ input = <<>>
    /\ result = Blank
    /\ output = <<>>
    /\ again = Blank
    /\ file = NoFile
    /\ doc = DefaultDocument
    /\ loaded = "none"
    /\ tag_suggestions \in TagIndexes
    /\ from_parser = DefaultParser
    /\ overflow_checks \in BOOLEAN
    /\ widget = NewWidget
    /\ session = NewSession

\* tag_suggestions.suggestions_for_prefix(prefix)
LookupPrefix(prefix) ==
    /\ pc \in {"widget:ready", "widget:looked"}
    /\ input' = prefix
    /\ output' = SuggestionsForPrefix(tag_suggestions, prefix)
    /\ pc' = "widget:looked"
    /\ UNCHANGED <<result, again, file, doc, loaded, tag_suggestions, overflow_checks,
                   from_parser, widget, session>>

WidgetInUse == pc \in {"widget:ready", "widget:updated", "widget:moved", "widget:hidden"}

\* autocompletion.update_suggestions(text, &tag_suggestions)
TypeText(text) ==
    /\ WidgetInUse
    /\ widget' = UpdateSuggestions(widget, text, tag_suggestions)
    /\ pc' = "widget:updated"
    /\ UNCHANGED <<input, result, output, again, file, doc, loaded, tag_suggestions,
                   overflow_checks, from_parser, session>>

\* autocompletion.select_next()
PressNext ==
    /\ WidgetInUse
    /\ widget' = SelectNext(widget)
    /\ pc' = "widget:moved"
    /\ UNCHANGED <<input, result, output, again, file, doc, loaded, tag_suggestions,
                   overflow_checks, from_parser, session>>

\* autocompletion.select_previous()
PressPrevious ==
    /\ WidgetInUse
    /\ widget' = SelectPrevious(widget)
    /\ pc' = "widget:moved"
    /\ UNCHANGED <<input, result, output, again, file, doc, loaded, tag_suggestions,
                   overflow_checks, from_parser, session>>

\* autocompletion.hide()
PressHide ==
    /\ WidgetInUse
    /\ widget' = Hide(widget)
    /\ pc' = "widget:hidden"
    /\ UNCHANGED <<input, result, output, again, file, doc, loaded, tag_suggestions,
                   overflow_checks, from_parser, session>>

NextWidget ==
    \/ \E prefix \in Prefixes : LookupPrefix(prefix)
    \/ \E text \in TypedTexts : TypeText(text)
    \/ PressNext
    \/ PressPrevious
    \/ PressHide

SpecWidget == InitWidget /\ [][NextWidget]_vars

---------------------------------------------------------------------------
(* The session of the terminal application: key events and saves *)

InitSession ==
    /\ Idle("app:running", <<>>)
    /\ overflow_checks \in BOOLEAN
    /\ widget = NewWidget
    /\ session = NewSession

\* One round of the loop of App::run for a key event: the event is handled,
\* update_session_state, and save_session when should_save says so
KeyEvent(elapsed, written) ==
    /\ pc = "app:running"
    /\ session.keystroke_counter < MaxKeystrokes
    /\ session' = AfterKey(UpdateState(session), elapsed, written)
    /\ UNCHANGED <<pc, input, result, output, again, file, doc, loaded, tag_suggestions,
                   overflow_checks, from_parser, widget>>

\* session_manager.save_session() called on its own
CallSaveSession(written) ==
    /\ pc = "app:running"
    /\ session' = SaveSession(session, written)
    /\ UNCHANGED <<pc, input, result, output, again, file, doc, loaded, tag_suggestions,
                   overflow_checks, from_parser, widget>>

\* The end of App::run: force_save
ExitApp(written) ==
    /\ pc = "app:running"
    /\ session' = ForceSave(session, written)
    /\ pc' = "app:exited"
    /\ UNCHANGED <<input, result, output, again, file, doc, loaded, tag_suggestions,
                   overflow_checks, from_parser, widget>>

NextSession ==
    \/ \E elapsed \in BOOLEAN, written \in BOOLEAN : KeyEvent(elapsed, written)
    \/ \E written \in BOOLEAN : CallSaveSession(written)
    \/ \E written \in BOOLEAN : ExitApp(written)

SpecSession == InitSession /\ [][NextSession]_vars

---------------------------------------------------------------------------
(* Properties of the Tag and TagCollection grammar *)

\* C3: the rendering of every accepted token, or token string, is accepted
\* again and renders to itself: format(parse(r)) = r for r = format(parse(s)).
C3_TagRenderingIsFixedPoint ==
    pc = "tag:reparsed" /\ SplitWhitespace(input.text) # <<>> =>
        /\ IsOk(again)
        /\ RenderUnit(input.unit, again.val) = output

\* C9: TagCollection::from_str succeeds exactly when the source holds at
\* least one whitespace-separated token and every token parses as a Tag, and
\* then returns the tags of the tokens in token order; so the empty and the
\* whitespace-only sources fail.
C9_CollectionParsesIffTokensParse ==
    pc = "tag:parsed" /\ input.unit = "TagCollection" =>
        LET tokens == SplitWhitespace(input.text)
            all_tags == \A i \in 1..Len(tokens) : IsOk(TagFromStr(tokens[i]))
        IN /\ IsOk(result) <=> (tokens # <<>> /\ all_tags)
           /\ IsOk(result) =>
                  /\ Len(result.val) = Len(tokens)
                  /\ \A i \in 1..Len(tokens) : result.val[i] = TagFromStr(tokens[i]).val

\* The prefixes in the order the dispatch tries them, with their variants
PrefixOrder ==
    << [pfx |-> PfxStatus, kind |-> "Status"],
       [pfx |-> PfxEstimate, kind |-> "Estimate"],
       [pfx |-> PfxStrict, kind |-> "StrictRecurrence"],
       [pfx |-> PfxLoose, kind |-> "LooseRecurrence"],
       [pfx |-> PfxThreshold, kind |-> "Threshold"],
       [pfx |-> PfxNote, kind |-> "Note"],
       [pfx |-> PfxPerson, kind |-> "Person"],
       [pfx |-> PfxOneOff, kind |-> "OneOff"],
       [pfx |-> PfxContext, kind |-> "Context"],
       [pfx |-> PfxProject, kind |-> "Project"] >>

\* The indexes of the prefixes token s starts with
MatchingPrefixes(s) == {i \in 1..Len(PrefixOrder) : StartsWith(s, PrefixOrder[i].pfx)}

\* The first prefix in the order that s starts with, when there is one
FirstPrefix(s) ==
    PrefixOrder[CHOOSE i \in MatchingPrefixes(s) : \A j \in MatchingPrefixes(s) : i <= j]

\* The payload is well-formed for the variant.
PayloadParses(kind, payload) ==
    CASE kind = "Status" -> IsOk(TaskStateFromStr(payload))
      [] kind = "Estimate" -> IsOk(TaskEstimateFromStr(payload))
      [] kind \in {"StrictRecurrence", "LooseRecurrence"} -> IsOk(TaskRecurrenceFromStr(payload))
      [] kind = "Threshold" -> IsOk(DateFromStr(payload))
      [] kind = "Note" -> IsOk(GuidFromStr(payload))
      [] OTHER -> TRUE

\* C14: a parsed token has the variant of the first prefix in the order that
\* it starts with, or is Custom when it starts with none; a token whose
\* payload after that prefix is malformed fails.
C14_FirstMatchingPrefixDecides ==
    pc = "tag:parsed" /\ input.unit = "Tag" =>
        IF MatchingPrefixes(input.text) = {}
        THEN IsOk(result) => result.val[1].kind = "Custom"
        ELSE LET first == FirstPrefix(input.text)
             IN /\ IsOk(result) => result.val[1].kind = first.kind
                /\ ~PayloadParses(first.kind, StripPrefix(input.text, first.pfx))
                       => ~IsOk(result)

\* C17: the payload of a Person, OneOff, Context or Project tag is the token
\* without its leading prefix, also when the prefix text occurs again in it.
C17_PayloadIsRemainderOfToken ==
    pc = "tag:parsed" /\ input.unit = "Tag" /\ IsOk(result)
        /\ result.val[1].kind \in {"Person", "OneOff", "Context", "Project"} =>
            result.val[1].a = StripPrefix(input.text, FirstPrefix(input.text).pfx)

\* The keywords of the states that carry a text, with their opening
StatesWithText ==
    { [state |-> "Hold", open |-> HoldOpen],
      [state |-> "Wait", open |-> WaitOpen],
      [state |-> "Cancelled", open |-> CancelledOpen] }

\* The keywords of the states that carry no text
StatesWithoutText ==
    { [state |-> "Todo", word |-> <<"t", "o", "d", "o">>],
      [state |-> "Next", word |-> <<"n", "e", "x", "t">>],
      [state |-> "Done", word |-> <<"d", "o", "n", "e">>] }

\* C18: the text of s:hold(..), s:wait(..) and s:cancelled(..) is everything
\* between the first `(` and the final `)`, whatever it contains; todo, next
\* and done carry no text; every other payload of s: fails.
C18_StatusTextIsBetweenParentheses ==
    pc = "tag:parsed" /\ input.unit = "Tag" /\ StartsWith(input.text, PfxStatus) =>
        LET payload == StripPrefix(input.text, PfxStatus)
            withText == {k \in StatesWithText :
                            StartsWith(payload, k.open) /\ EndsWith(payload, <<")">>)}
            plain == {k \in StatesWithoutText : payload = k.word}
        IN /\ \A k \in withText :
                  /\ IsOk(result)
                  /\ result.val[1].kind = "Status"
                  /\ result.val[1].a.state = k.state
                  /\ result.val[1].a.comment
                         = SubSeq(payload, Len(k.open) + 1, Len(payload) - 1)
           /\ \A k \in plain :
                  /\ IsOk(result)
                  /\ result.val[1].a = [state |-> k.state, comment |-> <<>>]
           /\ withText = {} /\ plain = {} => ~IsOk(result)

\* C19: a token that starts with no typed prefix parses exactly when it
\* contains `:` and is longer than one character, and then is the Custom tag
\* of its lower-cased key, before the first `:`, and lower-cased value; the
\* token `:` and every token without `:` fail.
C19_CustomNeedsColonAndLength ==
    pc = "tag:parsed" /\ input.unit = "Tag" /\ MatchingPrefixes(input.text) = {} =>
        /\ IsOk(result) <=> Contains(input.text, <<":">>) /\ Len(input.text) > 1
        /\ IsOk(result) =>
               LET kv == SplitOnce(input.text, ":").val
               IN result.val[1] = Tag("Custom", ToLowercase(kv.head), ToLowercase(kv.tail))

\* The ways to read token t as a prefix of a count, the digits of the count
\* and its unit
CountParts(t) ==
    { c \in [pfx : {PfxStrict, PfxLoose, PfxEstimate}, unit : {<<"d">>, <<"w">>, <<"y">>, Min}] :
        /\ (c.pfx = PfxEstimate) <=> (c.unit = Min)
        /\ StartsWith(t, c.pfx)
        /\ EndsWith(StripPrefix(t, c.pfx), c.unit)
        /\ Len(t) > Len(c.pfx) + Len(c.unit)
        /\ \A i \in (Len(c.pfx) + 1)..(Len(t) - Len(c.unit)) : t[i] \in Digits }

\* The digits of the count of t read as c
CountDigits(t, c) == SubSeq(t, Len(c.pfx) + 1, Len(t) - Len(c.unit))

\* C20: a count that parses as u64, with the unit d, w or y of a recurrence
\* or the unit min of an estimate, parses without a panic to a value that
\* renders the same count again; a count N of years is stored as N*52 weeks.
C20_AcceptedCountsRoundTrip ==
    pc = "tag:parsed" /\ input.unit = "Tag" =>
        \A c \in CountParts(input.text) :
            LET n == ParseU64(CountDigits(input.text, c))
            IN IsOk(n) =>
                /\ IsOk(result)
                /\ TagToString(result.val[1]) = c.pfx \o FormatU64(n.val) \o c.unit
                /\ c.unit = <<"y">> =>
                       result.val[1].a.days = Signed(FALSE, NumMul(NumMul(n.val, 52), 7))

---------------------------------------------------------------------------
(* Properties of the Task grammar *)

IsDateWord(w) == IsOk(DateFromStr(w))
IsPriorityWord(w) == IsOk(PriorityFromStr(w))
IsXWord(w) == w = X

\* The words Task::from_str hands to process_prefix for line s.
PrefixTokens(s) == Scan(s).prefix
PrefixDates(s) == SelectSeq(PrefixTokens(s), IsDateWord)
PrefixPriorities(s) == SelectSeq(PrefixTokens(s), IsPriorityWord)
PrefixXs(s) == SelectSeq(PrefixTokens(s), IsXWord)

\* C2: the rendering of every parsed Task parses, and renders to itself.
C2_TaskRenderingRoundTrips ==
    pc = "task:reparsed" /\ result.val.description # <<>> =>
        /\ IsOk(again)
        /\ TaskToString(again.val) = output

NoDescriptionWord(s) ==
    LET ws == SplitWhitespace(s)
    IN \E k \in 0..Len(ws) :
           /\ \A i \in 1..k : IsPrefix(ws[i])
           /\ k = Len(ws) \/ IsSuffix(ws[k + 1])

\* C8: Task parse fails for every line without a description word, and every
\* parsed Task has a non-empty description.
C8_DescriptionMandatory ==
    pc = "task:parsed" =>
        /\ NoDescriptionWord(input) => ~IsOk(result)
        /\ IsOk(result) => result.val.description # <<>>

\* The number of leading words of ws that are prefix tokens
RECURSIVE LeadingPrefixCount(_)
LeadingPrefixCount(ws) ==
    IF ws # <<>> /\ IsPrefix(Head(ws)) THEN 1 + LeadingPrefixCount(Tail(ws)) ELSE 0

\* The number of leading words of ws that do not parse as a Tag
RECURSIVE LeadingPlainCount(_)
LeadingPlainCount(ws) ==
    IF ws # <<>> /\ ~IsSuffix(Head(ws)) THEN 1 + LeadingPlainCount(Tail(ws)) ELSE 0

\* The line has a description word: the word after its leading prefix tokens
\* exists and does not parse as a Tag.
DescriptionStarts(s) ==
    LET ws == SplitWhitespace(s)
        k == LeadingPrefixCount(ws)
    IN k < Len(ws) /\ ~IsSuffix(ws[k + 1])

\* The words of s from its first description word up to its first tag
DescriptionWords(s) ==
    LET ws == SplitWhitespace(s)
        rest == SubSeq(ws, LeadingPrefixCount(ws) + 1, Len(ws))
    IN SubSeq(rest, 1, LeadingPlainCount(rest))

\* C15: once the description has started, a word that parses as `x`, Priority
\* or Date, the last word included, is a description word: completed,
\* priority and dates are those of the leading prefix tokens alone.
C15_PrefixOnlyBeforeDescription ==
    pc = "task:parsed" /\ IsOk(result) /\ DescriptionStarts(input) =>
        LET ws == SplitWhitespace(input)
            p == ProcessPrefix(SubSeq(ws, 1, LeadingPrefixCount(ws)))
        IN /\ IsOk(p)
           /\ result.val.is_completed = p.val.is_done
           /\ result.val.priority_level = p.val.priority
           /\ result.val.completion_date = p.val.completion_date
           /\ result.val.creation_date = p.val.creation_date
           /\ result.val.description = Join(DescriptionWords(input), <<SP>>)

\* The words of s from its first word that parses as a Tag, after the leading
\* prefix tokens, to its end
SuffixWords(s) ==
    LET ws == SplitWhitespace(s)
        rest == SubSeq(ws, LeadingPrefixCount(ws) + 1, Len(ws))
    IN SubSeq(rest, LeadingPlainCount(rest) + 1, Len(rest))

\* A word that starts with a typed prefix and does not parse as a Tag
TagShaped(w) == MatchingPrefixes(w) # {} /\ ~IsSuffix(w)

\* C16: the first word that parses as a Tag starts the suffix, and the words
\* from it to the end of the line are parsed as one TagCollection: the Task
\* fails when one of them is not a valid tag, and otherwise has that
\* collection as its tags and the words before it as its description. A
\* tag-shaped word that does not parse and precedes every valid tag is a
\* word of the description.
C16_SuffixCommitsAtFirstTag ==
    pc = "task:parsed" =>
        LET suffix == SuffixWords(input)
            plain == DescriptionWords(input)
            tags == TagCollectionFromStr(Join(suffix, <<SP>>))
        IN /\ suffix # <<>> /\ (\E i \in 1..Len(suffix) : ~IsSuffix(suffix[i]))
                 => ~IsOk(result)
           /\ suffix # <<>> /\ IsOk(result) =>
                  /\ IsOk(tags)
                  /\ result.val.tags = Some(tags.val)
                  /\ result.val.description = Join(plain, <<SP>>)
           /\ IsOk(result) =>
                  \A i \in 1..Len(plain) :
                      TagShaped(plain[i]) =>
                          \E j \in 1..Len(SplitWhitespace(result.val.description)) :
                              SplitWhitespace(result.val.description)[j] = plain[i]

C16_TagsAfterTagShapedWord ==
    /\ pc = "task:parsed"
    /\ IsOk(result)
    /\ Len(SuffixWords(input)) >= 2
    /\ \E i \in 1..Len(DescriptionWords(input)) : TagShaped(DescriptionWords(input)[i])
    /\ result.val.tags.some
    /\ Len(result.val.tags.val) = Len(SuffixWords(input))

---------------------------------------------------------------------------
(* Properties of the Note grammar *)

\* A run of at least one `#`, a space, and the title.
WellFormedHeading(line) ==
    \E k \in 1..(Len(line) - 1) :
        /\ SubSeq(line, 1, k) = Repeat(Hash, k)
        /\ line[k + 1] = SP

WellFormedBlock(block) ==
    /\ Len(block) >= 3
    /\ WellFormedHeading(block[1])
    /\ block[2] \in BareMetadata \cup TaggedMetadata

MalformedBlock(block) ==
    \/ ~Contains(block[1], <<SP>>)
    \/ \E i \in 1..(FirstIndex(block[1], SP) - 1) : block[1][i] # Hash
    \/ ~StartsWith(block[2], MetaStart)
    \/ block[2] \notin BareMetadata \cup TaggedMetadata

\* C11: Note::from_vec reports every malformed block as an error value and
\* never aborts.
C11_MalformedNoteIsError ==
    pc = "note:parsed" /\ Len(input) >= 3 /\ MalformedBlock(input) => result = Err

\* The number of leading `#` characters of a line
RECURSIVE LeadingHashes(_)
LeadingHashes(line) ==
    IF line # <<>> /\ Head(line) = Hash THEN 1 + LeadingHashes(Tail(line)) ELSE 0

\* The part of a line before its first space, the whole line without one
LevelWord(line) ==
    IF Contains(line, <<SP>>) THEN SubSeq(line, 1, FirstIndex(line, SP) - 1) ELSE line

\* C21: a parsed Note has a level of at least 1, the number of leading `#` of
\* its heading line; a heading whose part before the first space is empty or
\* holds another character than `#` fails to parse.
C21_LevelCountsLeadingHashes ==
    pc = "note:parsed" /\ input # <<>> =>
        /\ IsOk(result) =>
               /\ result.val.lvl >= 1
               /\ result.val.lvl = LeadingHashes(input[1])
        /\ LevelWord(input[1]) = <<>> \/ (\E i \in 1..Len(LevelWord(input[1])) :
                                              LevelWord(input[1])[i] # Hash)
               => ~IsOk(result)

---------------------------------------------------------------------------
(* Properties of the document reader and writer *)

\* The document in memory is the one OrgDocument::from reads from the file
\* as it is now.
HoldsLoadOf(f) == f.exists /\ IsOk(From(f)) /\ doc = From(f).val

\* C1: for every document text that load accepts, writing the loaded
\* document gives that text followed by one more newline.
C1_WriteOfLoadAddsOneNewline ==
    pc = "doc:written" /\ HoldsLoadOf(file) => output = file.bytes \o <<NL>>

\* C4: saving overwrites the whole file with the document in memory: after a
\* save that succeeded the file holds what write gives for the document and
\* nothing of its earlier content.
C4_SaveReplacesWholeFile ==
    pc = "doc:saved" /\ IsOk(result) => file.bytes = Write(doc)

\* C5: loading is fail-fast without aborting: a load of a file that is there
\* and does not give a document returns an error to its caller, and the
\* process goes on.
C5_FailedLoadReturnsError ==
    file.exists /\ loaded \notin {"none", "ok"} => loaded = "err" /\ pc # "doc:aborted"

---------------------------------------------------------------------------
(* Properties of the tag suggestions *)

\* The tags of every tag collection of document d: of its tasks that have
\* one, and of its notes.
TagsIn(d) ==
    UNION ({ {d.tasks[i].tags.val[j] : j \in 1..Len(d.tasks[i].tags.val)} :
                 i \in {k \in 1..Len(d.tasks) : d.tasks[k].tags.some} }
           \cup { {d.notes[i].tags[j] : j \in 1..Len(d.notes[i].tags)} :
                      i \in 1..Len(d.notes) })

\* Bucket b is ascending without a repeat and holds exactly the tags of
\* variant kind that occur in d.
IsBucketOf(b, d, kind) ==
    /\ \A i \in 1..(Len(b) - 1) : StrLess(b[i], b[i + 1])
    /\ {b[i] : i \in 1..Len(b)} = {TagToString(t) : t \in {u \in TagsIn(d) : u.kind = kind}}

\* C12: each of the five buckets of collect_unique_tags is sorted ascending,
\* has no duplicate, and holds exactly the tags of its variant that occur in
\* a tag collection of some task or note of the document.
C12_BucketsSortedAndUnique ==
    pc = "doc:collected" =>
        /\ IsBucketOf(tag_suggestions.context, doc, "Context")
        /\ IsBucketOf(tag_suggestions.project, doc, "Project")
        /\ IsBucketOf(tag_suggestions.person, doc, "Person")
        /\ IsBucketOf(tag_suggestions.custom, doc, "Custom")
        /\ IsBucketOf(tag_suggestions.oneoff, doc, "OneOff")

\* Two tasks with the same tags, collected: their contexts once each, sorted.
C12_SharedTagsCollectedOnce ==
    /\ pc = "doc:collected"
    /\ Len(doc.tasks) = 2
    /\ doc.tasks[1].tags.some
    /\ doc.tasks[1].tags = doc.tasks[2].tags
    /\ tag_suggestions.context = << <<"@", "a">>, <<"@", "b">> >>
    /\ tag_suggestions.project = << <<"+", "a">> >>

---------------------------------------------------------------------------
(* Properties of the section counts *)

\* The lines of a file that are not empty
NonBlankLines(f) == SelectSeq(Lines(f.bytes), LAMBDA l : l # <<>>)

\* The least index of ls above from whose line is in the set P of lines, or
\* Len(ls) + 1 when there is none.
NextIndex(ls, from, P) ==
    IF \E i \in (from + 1)..Len(ls) : ls[i] \in P
    THEN CHOOSE i \in (from + 1)..Len(ls) :
             ls[i] \in P /\ \A j \in (from + 1)..(i - 1) : ls[j] \notin P
    ELSE Len(ls) + 1

\* The lines of ls that start with "## "
H2Lines(ls) == {ls[i] : i \in {k \in 1..Len(ls) : StartsWith(ls[k], H2)}}

\* The lines after the first `## Tasks` line, up to the next line that
\* starts with "## ".
TaskSection(ls) ==
    LET t == NextIndex(ls, 0, {TasksMarker})
    IN SubSeq(ls, t + 1, NextIndex(ls, t, H2Lines(ls)) - 1)

\* The lines after the first `## Notes` line that follows the first
\* `## Tasks` line, up to the next line that starts with "## ".
NotesSection(ls) ==
    LET t == NextIndex(ls, 0, {TasksMarker})
        n == NextIndex(ls, t, {NotesMarker})
    IN SubSeq(ls, n + 1, NextIndex(ls, n, H2Lines(ls)) - 1)

\* The number of lines of a section that start with "### "
HeadingCount(section) == Len(SelectSeq(section, LAMBDA l : StartsWith(l, H3)))

\* The section begins with lines that come before its first "### " line.
HasLeadingBlock(section) == section # <<>> /\ ~StartsWith(section[1], H3)

\* C13 as stated: after a load, size() is the number of non-blank lines of
\* the task section and the number of "### " heading lines of the notes
\* section.
C13_CountsPerHeadingLine ==
    pc = "doc:loaded" /\ loaded = "ok" =>
        DocLen(doc) = <<Len(TaskSection(NonBlankLines(file))),
                        HeadingCount(NotesSection(NonBlankLines(file)))>>

\* C13 amended: the notes are one per "### " heading line of the notes
\* section and one more when the section begins with lines before its first
\* "### " line, which form a block of their own.
C13_CountsPerBlock ==
    pc = "doc:loaded" /\ loaded = "ok" =>
        LET notes == NotesSection(NonBlankLines(file))
        IN DocLen(doc) = <<Len(TaskSection(NonBlankLines(file))),
                           HeadingCount(notes) + (IF HasLeadingBlock(notes) THEN 1 ELSE 0)>>

\* A file with two task lines and two note blocks, a between and a post
\* section, loaded.
C13_TwoTasksTwoNotesLoaded ==
    /\ pc = "doc:loaded"
    /\ loaded = "ok"
    /\ DocLen(doc) = <<2, 2>>
    /\ doc.between # <<>>
    /\ doc.post # <<>>
    /\ HeadingCount(NotesSection(NonBlankLines(file))) = 2

---------------------------------------------------------------------------
(* Properties of the parser states *)

\* The place of a parser state in the order of the states
StateRank(state) ==
    CASE state = "BeforeTasks" -> 1
      [] state = "InTasks" -> 2
      [] state = "BetweenTasksAndNotes" -> 3
      [] state = "InNotes" -> 4
      [] state = "AfterNotes" -> 5

---------------------------------------------------------------------------
(* Properties of Task::with_today *)

\* C23: for every text that parses as a Task, with_today of the text is the
\* parsed task with the current date as creation date: completed, priority,
\* completion date, description and tags are those of the parsed task, also
\* when the text has one or two leading dates.
C23_WithTodayChangesCreationDateOnly ==
    pc = "task:stamped" /\ IsOk(result) =>
        /\ IsOk(again)
        /\ again.val.creation_date = Some(Today)
        /\ \A f \in DOMAIN result.val \ {"creation_date"} : again.val[f] = result.val[f]
        /\ DOMAIN again.val = DOMAIN result.val

C23_StampedTextWithTwoDates ==
    /\ pc = "task:stamped"
    /\ IsOk(result)
    /\ result.val.completion_date.some
    /\ result.val.creation_date.some
    /\ result.val.creation_date # Some(Today)
    /\ result.val.tags.some
    /\ Len(input) > 1 /\ IsOk(DateFromStr(<<input[1]>>)) /\ IsOk(DateFromStr(<<input[3]>>))


---------------------------------------------------------------------------
(* Properties of the metadata line of a note *)

\* The space-separated fields after the start of the metadata line are
\* labelled cre:, mod: and guid:, in this order
LabelledFields(fields) ==
    /\ Len(fields) >= 3
    /\ StartsWith(fields[1], Cre)
    /\ StartsWith(fields[2], Mod)
    /\ StartsWith(fields[3], GuidKey)

\* C24: a block whose metadata line does not carry the fields cre:<date>,
\* mod:<date> and guid:<guid> in this order, each with its label, is not
\* parsed to a Note.
C24_UnlabelledMetadataRejected ==
    pc = "note:parsed" /\ Len(input) >= 2 /\ StartsWith(input[2], MetaStart)
        /\ ~LabelledFields(Split(Drop(input[2], Len(MetaStart)), SP))
    => ~IsOk(result)


---------------------------------------------------------------------------
(* Properties of load after save *)

\* C25: for every source that load accepts, the load of what write gives for
\* the loaded document succeeds and gives a document equal to the loaded one.
C25_LoadOfWriteOfLoad ==
    pc = "doc:written" /\ HoldsLoadOf(file) => From(FileOf(output)) = Ok(doc)


\* C26: every document made of a loaded or an empty document by appending
\* tasks of Task::with_today and notes of Note::with can be written and
\* loaded back to an equal document, also with a note without content lines
\* or with a content line that is empty or starts with `## ` or `### `.
C26_EditedDocumentLoadsBack ==
    pc = "doc:written" => From(FileOf(output)) = Ok(doc)

\* C27: where no file is at the path and the caller has taken the empty
\* document and appended a task, save succeeds, and a load of the path then
\* gives a document with that task.
C27_FirstSaveCreatesFile ==
    [][~file.exists /\ Len(doc.tasks) > 0 /\ pc' = "doc:saved" =>
           /\ IsOk(result')
           /\ file'.exists
           /\ IsOk(From(file'))
           /\ From(file').val.tasks = doc.tasks]_vars


---------------------------------------------------------------------------
(* Properties of the lookup by prefix and of the autocompletion popup *)

\* The tags of the five buckets of ts
TagsOfIndex(ts) ==
    {ts.context[i] : i \in 1..Len(ts.context)} \cup {ts.project[i] : i \in 1..Len(ts.project)}
    \cup {ts.person[i] : i \in 1..Len(ts.person)} \cup {ts.custom[i] : i \in 1..Len(ts.custom)}
    \cup {ts.oneoff[i] : i \in 1..Len(ts.oneoff)}

\* C28: suggestions_for_prefix(q) returns every tag of every bucket that
\* starts with q, compared in lower case, and nothing else; so a custom tag
\* with a key that starts with `p` is returned for the prefix made of its key
\* and the colon.
C28_PrefixLookupIsComplete ==
    pc = "widget:looked" =>
        {output[i] : i \in 1..Len(output)} =
            {tag \in TagsOfIndex(tag_suggestions) :
                 StartsWith(ToLowercase(tag), ToLowercase(input))}

\* C30: where the suggestion list is not empty the selected index is below
\* its length; select_next goes from the last entry to the first and
\* select_previous from the first to the last, and each undoes the other; a
\* visible popup has a list that is not empty and a selected entry.
C30_SelectionStaysInRange ==
    /\ [](/\ widget.suggestions # <<>> => widget.selected_index < Len(widget.suggestions)
          /\ IsVisible(widget) => widget.suggestions # <<>> /\ GetSelected(widget).some)
    /\ [][widget.suggestions # <<>> =>
             /\ widget.selected_index = Len(widget.suggestions) - 1 =>
                    SelectNext(widget).selected_index = 0
             /\ widget.selected_index = 0 =>
                    SelectPrevious(widget).selected_index = Len(widget.suggestions) - 1
             /\ SelectPrevious(SelectNext(widget)) = widget
             /\ SelectNext(SelectPrevious(widget)) = widget]_vars

C30_LastEntrySelected ==
    /\ pc = "widget:moved"
    /\ IsVisible(widget)
    /\ Len(widget.suggestions) = 3
    /\ widget.selected_index = 2

---------------------------------------------------------------------------
(* Properties of the session autosave *)

\* C29: while no session save has failed, fewer than save_threshold key
\* events are left unsaved after a round of the application loop, so no more
\* than save_threshold are handled without a save; a save that succeeds
\* leaves needs_save false and the keystroke counter 0; save_session changes
\* nothing when needs_save is false.
C29_AutosaveWithinThreshold ==
    /\ [](/\ ~session.save_failed =>
                 /\ session.keys_since_save < save_threshold
                 /\ session.saved_after <= save_threshold
          /\ session.last_save = "ok" =>
                 ~session.needs_save /\ session.keystroke_counter = 0)
    /\ [][session'.last_save = "nothing" =>
             session' = [session EXCEPT !.last_save = "nothing"]]_vars

C29_SavedAtThreshold ==
    /\ ~session.save_failed
    /\ session.last_save = "ok"
    /\ session.saved_after = save_threshold
    /\ session.keystroke_counter = 0


===========================================================================
